---- MODULE Spec2Model ----
(***************************************************************************)
(* Card-offer search widgets of the swiggy-zomato-offers repository:       *)
(*   - the AirlineOffers component (src/unnamed/part_003): catalog load,   *)
(*     offer loads, chip strips, search box, offer matching and dedup;     *)
(*   - the CreditCardDropdown component (src/src/App.jsx): catalog fetch,  *)
(*     search, selection and the per-selection offer fetch.                *)
(* A string is a sequence of characters; a character is a one-element      *)
(* TLA+ string ("a", " ", "(") or a named character outside ASCII          *)
(* ("e_acute", "COMBINING_ACUTE", "TEL_SIGN", "BULLET").                   *)
(***************************************************************************)
EXTENDS Integers, Sequences, FiniteSets

(***************************************************************************)
(* Characters and the JavaScript string primitives the code relies on     *)
(***************************************************************************)
UpperLetters == <<"A","B","C","D","E","F","G","H","I","J","K","L","M","N","O","P","Q","R","S","T","U","V","W","X","Y","Z">>
LowerLetters == <<"a","b","c","d","e","f","g","h","i","j","k","l","m","n","o","p","q","r","s","t","u","v","w","x","y","z">>

Range(s) == {s[i] : i \in 1..Len(s)}

\* regex class \w : [A-Za-z0-9_]
WordChars ==
  LET
    Digits == <<"0","1","2","3","4","5","6","7","8","9">>
  IN
  Range(UpperLetters) \cup Range(LowerLetters) \cup Range(Digits) \cup {"_"}
IsWordChar(c) == c \in WordChars

\* regex class \s
IsSpaceChar(c) == c \in {" ", "\t", "\n", "\r"}

\* String.prototype.toLowerCase / toUpperCase, one character
UpperIndex == [c \in Range(UpperLetters) |-> CHOOSE i \in 1..26 : UpperLetters[i] = c]
LowerIndex == [c \in Range(LowerLetters) |-> CHOOSE i \in 1..26 : LowerLetters[i] = c]
LowerChar(c) ==
  IF c \in DOMAIN UpperIndex THEN LowerLetters[UpperIndex[c]]
  ELSE IF c = "E_ACUTE" THEN "e_acute" ELSE c

\* String.prototype.normalize("NFKD"), one character: the decomposition
NFKDChar(c) ==
  CASE c = "e_acute" -> <<"e", "COMBINING_ACUTE">>
    [] c = "E_ACUTE" -> <<"E", "COMBINING_ACUTE">>
    [] c = "TEL_SIGN" -> <<"T","E","L">>
    [] c = "fi_LIGATURE" -> <<"f","i">>
    [] OTHER -> <<c>>

RECURSIVE FlatMap(_, _)
FlatMap(F(_), s) == IF s = <<>> THEN <<>> ELSE F(Head(s)) \o FlatMap(F, Tail(s))

MapStr(F(_), s) == [i \in 1..Len(s) |-> F(s[i])]

toLowerCase(s) == MapStr(LowerChar, s)

\* String.prototype.trim
RECURSIVE TrimLeft(_)
TrimLeft(s) == IF s # <<>> /\ IsSpaceChar(Head(s)) THEN TrimLeft(Tail(s)) ELSE s
RECURSIVE TrimRight(_)
TrimRight(s) ==
  IF s # <<>> /\ IsSpaceChar(s[Len(s)]) THEN TrimRight(SubSeq(s, 1, Len(s) - 1)) ELSE s
trim(s) == TrimRight(TrimLeft(s))

\* replace(/\s+/g, " ")
RECURSIVE CollapseSpaces(_)
CollapseSpaces(s) ==
  IF s = <<>> THEN <<>>
  ELSE IF IsSpaceChar(Head(s))
    THEN <<" ">> \o CollapseSpaces(TrimLeft(s))
    ELSE <<Head(s)>> \o CollapseSpaces(Tail(s))

\* String.prototype.includes / startsWith / endsWith
StartsWithAt(s, i, t) == i + Len(t) - 1 <= Len(s) /\ SubSeq(s, i, i + Len(t) - 1) = t
includes(s, t) == \E i \in 1..(Len(s) + 1) : StartsWithAt(s, i, t)

\* a regex word boundary \b between positions i-1 and i of s
WordBoundaryAt(s, i) ==
  (i > 1 /\ IsWordChar(s[i - 1])) # (i <= Len(s) /\ IsWordChar(s[i]))

\* /\bw\b/.test(s)
HasWord(s, w) ==
  \E i \in 1..(Len(s) + 1) :
    StartsWithAt(s, i, w) /\ WordBoundaryAt(s, i) /\ WordBoundaryAt(s, i + Len(w))

\* s.split(" ").filter(Boolean) and s.split(/\s+/) on a trimmed string
SplitWords(s) ==
  LET
    \* the maximal runs of s[i..] without white space, the run in progress
    \* having started at position start
    RECURSIVE WordsFrom(_, _, _)
    WordsFrom(s1, i, start) ==
      IF i > Len(s1) THEN (IF start < i THEN <<SubSeq(s1, start, i - 1)>> ELSE <<>>)
      ELSE IF IsSpaceChar(s1[i])
        THEN (IF start < i THEN <<SubSeq(s1, start, i - 1)>> ELSE <<>>) \o WordsFrom(s1, i + 1, i + 1)
      ELSE WordsFrom(s1, i + 1, start)
  IN
  WordsFrom(s, 1, 1)

\* Array.prototype.filter on a sequence
RECURSIVE Filter(_, _)
Filter(P(_), s) ==
  IF s = <<>> THEN <<>>
  ELSE (IF P(Head(s)) THEN <<Head(s)>> ELSE <<>>) \o Filter(P, Tail(s))

Max(a, b) == IF a >= b THEN a ELSE b
Min(a, b) == IF a <= b THEN a ELSE b

\* the first sign that is not zero
OrSign(a, b) == IF a # 0 THEN a ELSE b

(***************************************************************************)
(* String.prototype.localeCompare, as the default collation orders the     *)
(* characters used here: white space, then punctuation, then digits, then  *)
(* letters; letters compare without case first and, when the strings are   *)
(* equal without case, lower case sorts before upper case at the first     *)
(* difference.  The result is negative, zero or positive.                  *)
(***************************************************************************)
CollationOrder == <<" ","_","-",".","(",")","&","0","1","2","3","4","5","6","7","8","9","a","b","c","d","e","f","g","h","i","j","k","l","m","n","o","p","q","r","s","t","u","v","w","x","y","z">>
WeightOf ==
  [c \in Range(CollationOrder) |-> CHOOSE i \in 1..Len(CollationOrder) : CollationOrder[i] = c]
localeCompare(a, b) ==
  LET
    RECURSIVE PrimaryCompare(_, _)
    LowerWeight(l) == IF l \in DOMAIN WeightOf THEN WeightOf[l] ELSE 1
    PrimaryWeight(c) ==
      LowerWeight(LowerChar(c))
    PrimaryCompare(a1, b1) ==
      IF a1 = <<>> THEN (IF b1 = <<>> THEN 0 ELSE -1)
      ELSE IF b1 = <<>> THEN 1
      ELSE OrSign(PrimaryWeight(Head(a1)) - PrimaryWeight(Head(b1)), PrimaryCompare(Tail(a1), Tail(b1)))
    RECURSIVE CaseCompare(_, _)
    CaseCompare(a2, b2) ==
      IF a2 = <<>> \/ b2 = <<>> THEN 0
      ELSE IF Head(a2) = Head(b2) THEN CaseCompare(Tail(a2), Tail(b2))
      ELSE IF Head(a2) = LowerChar(Head(a2)) THEN -1 ELSE 1
  IN
  OrSign(PrimaryCompare(a, b), CaseCompare(a, b))

\* Array.prototype.sort (stable) under a comparator
RECURSIVE SortBy(_, _)
SortBy(Cmp(_, _), s) ==
  LET
    \* x inserted after the elements it does not precede
    RECURSIVE InsertSorted(_, _, _)
    InsertSorted(Cmp1(_, _), x, s1) ==
      IF s1 = <<>> THEN <<x>>
      ELSE IF Cmp1(x, Head(s1)) < 0 THEN <<x>> \o s1
      ELSE <<Head(s1)>> \o InsertSorted(Cmp1, x, Tail(s1))
  IN
  IF s = <<>> THEN <<>>
  ELSE InsertSorted(Cmp, s[Len(s)], SortBy(Cmp, SubSeq(s, 1, Len(s) - 1)))

(***************************************************************************)
(* part_003: configuration                                                 *)
(***************************************************************************)
\* The header line shared by the CSV files of the model, in column order.
\* A row is a sequence of cell strings, one per header; an empty cell is
\* the empty string (every reader of a cell skips empty values).
Headers ==
  << <<"E","l","i","g","i","b","l","e"," ","C","r","e","d","i","t"," ","C","a","r","d","s">>, <<"E","l","i","g","i","b","l","e"," ","D","e","b","i","t"," ","C","a","r","d","s">>, <<"E","l","i","g","i","b","l","e"," ","C","a","r","d","s">>,
     <<"C","a","r","d"," ","T","y","p","e">>, <<"U","P","I">>, <<"N","e","t"," ","B","a","n","k","i","n","g">>, <<"O","f","f","e","r">>, <<"O","f","f","e","r"," ","T","i","t","l","e">>,
     <<"D","e","s","c","r","i","p","t","i","o","n">>, <<"I","m","a","g","e">>, <<"L","i","n","k">>, <<"C","o","u","p","o","n"," ","C","o","d","e">>, <<"W","e","b","s","i","t","e">> >>

\* the headers as String(k).toLowerCase() gives them
LowerHeaders == [i \in 1..Len(Headers) |-> toLowerCase(Headers[i])]

LIST_FIELDS ==
  [ credit |-> << <<"E","l","i","g","i","b","l","e"," ","C","r","e","d","i","t"," ","C","a","r","d","s">>, <<"E","l","i","g","i","b","l","e"," ","C","a","r","d","s">> >>,
    debit |-> << <<"E","l","i","g","i","b","l","e"," ","D","e","b","i","t"," ","C","a","r","d","s">>, <<"A","p","p","l","i","c","a","b","l","e"," ","D","e","b","i","t"," ","C","a","r","d","s">> >>,
    upi |-> << <<"U","P","I">>, <<"E","l","i","g","i","b","l","e"," ","U","P","I">>, <<"U","P","I"," ","O","p","t","i","o","n","s">> >>,
    netbanking |-> << <<"N","e","t"," ","B","a","n","k","i","n","g">>, <<"N","e","t","B","a","n","k","i","n","g">>, <<"N","e","t"," ","B","a","n","k","i","n","g"," ","O","p","t","i","o","n","s">>, <<"N","e","t","B","a","n","k","i","n","g"," ","O","p","t","i","o","n","s">> >>,
    title |-> << <<"O","f","f","e","r"," ","T","i","t","l","e">>, <<"T","i","t","l","e">> >>,
    image |-> << <<"I","m","a","g","e">>, <<"C","r","e","d","i","t"," ","C","a","r","d"," ","I","m","a","g","e">>, <<"O","f","f","e","r"," ","I","m","a","g","e">>, <<"i","m","a","g","e">>, <<"I","m","a","g","e"," ","U","R","L">> >>,
    link |-> << <<"L","i","n","k">>, <<"O","f","f","e","r"," ","L","i","n","k">> >>,
    desc |-> << <<"D","e","s","c","r","i","p","t","i","o","n">>, <<"D","e","t","a","i","l","s">>, <<"O","f","f","e","r"," ","D","e","s","c","r","i","p","t","i","o","n">>, <<"F","l","i","g","h","t"," ","B","e","n","e","f","i","t">> >> ]

MAX_SUGGESTIONS == 50

VARIANT_NOTE_SITES == {"Swiggy", "Zomato"}

(***************************************************************************)
(* part_003: helpers                                                       *)
(***************************************************************************)
Minimum(S) == CHOOSE x \in S : \A y \in S : x <= y

\* obj[k] for a header name k; the empty string when the row has no such key
CellIn(row, columns) == IF columns = {} THEN <<>> ELSE row[Minimum(columns)]
Cell(row, k) == CellIn(row, {i \in 1..Len(Headers) : Headers[i] = k})

\* the cell is usable: String(v).trim() !== ""
NonBlank(v) == trim(v) # <<>>

\* toLowerCase().normalize("NFKD").replace(/[^\w\s]/g, " ").replace(/\s+/g, " ").trim()
toNorm(s) ==
  LET
    \* replace(/[^\w\s]/g, " "), one character
    WordOrSpace(c) == IF IsWordChar(c) \/ IsSpaceChar(c) THEN c ELSE " "
  IN
  trim(CollapseSpaces(MapStr(WordOrSpace, FlatMap(NFKDChar, toLowerCase(s)))))

\* first non-blank cell among the keys, in key order
firstField(obj, keys) ==
  LET
    \* the first non-blank value of a list of cells; <<>> stands for undefined
    RECURSIVE FirstNonBlank(_)
    FirstNonBlank(cells) ==
      IF cells = <<>> THEN <<>>
      ELSE IF NonBlank(Head(cells)) THEN Head(cells)
      ELSE FirstNonBlank(Tail(cells))
  IN
  FirstNonBlank([i \in 1..Len(keys) |-> Cell(obj, keys[i])])

\* first non-blank cell whose header contains substr, case-insensitively
firstFieldByContains(obj, substr) ==
  CellIn(obj, {i \in 1..Len(Headers) :
                 includes(LowerHeaders[i], toLowerCase(substr)) /\ NonBlank(obj[i])})

\* a || b on cell values (the empty string is falsy)
OrElse(a, b) == IF a # <<>> THEN a ELSE b

\* the {key, value} pairs of a row whose header satisfies the predicate and
\* whose value is not blank, in column order
entriesWhereKey(obj, predicate(_)) ==
  LET
    \* the elements of a set of numbers in increasing order
    RECURSIVE Ascending(_)
    Ascending(S) == IF S = {} THEN <<>> ELSE <<Minimum(S)>> \o Ascending(S \ {Minimum(S)})
    \* the non-blank cells whose header satisfies the predicate, in column order
    EntriesAt(obj1, idx) == [n \in 1..Len(idx) |-> [key |-> Headers[idx[n]], value |-> obj1[idx[n]]]]
  IN
  EntriesAt(obj, Ascending({i \in 1..Len(Headers) : predicate(Headers[i]) /\ NonBlank(obj[i])}))

\* the parts of a list cell: split on , / ; | new lines, tabs, bullets and
\* the word "and"; parts are trimmed and empty parts dropped
splitList(val) ==
  LET
    RECURSIVE PartsFrom(_, _, _)
    \* length of the separator of splitList's regex starting at position i, or 0
    SeparatorAt(s1, i1) ==
      IF s1[i1] \in {",", "/", ";", "|", "\n", "\r", "\t", "BULLET"} THEN 1
      ELSE IF (StartsWithAt(s1, i1, <<"a","n","d">>) \/ StartsWithAt(s1, i1, <<"A","N","D">>))
              /\ WordBoundaryAt(s1, i1) /\ WordBoundaryAt(s1, i1 + 3) THEN 3
      ELSE 0
    \* String.prototype.split on splitList's regex: the parts of s[start..],
    \* scanning from position i, where n is the separator length found at i
    PartsStep(s2, i2, start1, n) ==
      IF n > 0 THEN <<SubSeq(s2, start1, i2 - 1)>> \o PartsFrom(s2, i2 + n, i2 + n)
      ELSE PartsFrom(s2, i2 + 1, start1)
    PartsFrom(s, i, start) ==
      IF i > Len(s) THEN <<SubSeq(s, start, Len(s))>>
      ELSE PartsStep(s, i, start, SeparatorAt(s, i))
    NonEmpty(t) == t # <<>>
  IN
  IF val = <<>> THEN <<>>
  ELSE Filter(NonEmpty, MapStr(trim, PartsFrom(val, 1, 1)))

\* In a string t without trailing white space: the position of the "(" that
\* the regex /\([^)]*\)\s*$/ matches from, or 0 when it does not match
GroupStartIn(t) ==
  LET
    Maximum(S) == CHOOSE x \in S : \A y \in S : x >= y
    \* the last ")" before the closing one, or 0
    LastCloseBefore(t1, e) ==
      Maximum({0} \cup {i \in 1..(e - 1) : t1[i] = ")"})
    MinOrZero(S) == IF S = {} THEN 0 ELSE Minimum(S)
    FirstOpenIn(t2, from, to) ==
      MinOrZero({i \in from..to : t2[i] = "("})
  IN
  IF t = <<>> \/ t[Len(t)] # ")" THEN 0
  ELSE FirstOpenIn(t, LastCloseBefore(t, Len(t)) + 1, Len(t) - 1)

\* name.replace(/\s*\([^)]*\)\s*$/, "").trim()
BaseAt(name, g) == IF g = 0 THEN trim(name) ELSE trim(SubSeq(name, 1, g - 1))
getBase(name) == BaseAt(name, GroupStartIn(TrimRight(name)))

\* the text of a trailing parenthesised group, or the empty string
getVariant(name) ==
  LET
    \* name.match(/\(([^)]+)\)\s*$/): the group, trimmed
    VariantAt(t1, g) ==
      IF g = 0 \/ g + 1 > Len(t1) - 1 THEN <<>> ELSE trim(SubSeq(t1, g + 1, Len(t1) - 1))
    VariantIn(t) ==
      VariantAt(t, GroupStartIn(t))
  IN
  VariantIn(TrimRight(name))

BrandOf ==
  LET
    \* the canonical spellings of brandCanonicalize
    BrandTable ==
      { <<"M","a","k","e","M","y","T","r","i","p">>, <<"I","C","I","C","I">>, <<"H","D","F","C">>, <<"S","B","I">>, <<"I","D","F","C">>, <<"P","N","B">>, <<"R","B","L">>, <<"Y","E","S">> }
  IN
  [l \in {toLowerCase(b) : b \in BrandTable} |-> CHOOSE b \in BrandTable : toLowerCase(b) = l]

\* brand names rewritten to their canonical spelling
brandCanonicalize(text) ==
  LET
    RECURSIVE CanonFrom(_, _, _)
    BrandLookup(w1, l) == IF l \in DOMAIN BrandOf THEN BrandOf[l] ELSE w1
    BrandWord(w) ==
      BrandLookup(w, toLowerCase(w))
    \* every maximal run of word characters that is a brand, case-insensitively,
    \* is rewritten to the canonical spelling (the /\bBrand\b/gi replacements);
    \* the run in progress started at position start
    CanonFrom(s, i, start) ==
      IF i > Len(s) THEN BrandWord(SubSeq(s, start, i - 1))
      ELSE IF IsWordChar(s[i]) THEN CanonFrom(s, i + 1, start)
      ELSE BrandWord(SubSeq(s, start, i - 1)) \o <<s[i]>> \o CanonFrom(s, i + 1, i + 1)
  IN
  CanonFrom(text, 1, 1)

\* the difference of the two lengths, a lower bound of the distance
LevLengthDifference(a, b) == IF Len(a) < Len(b) THEN Len(b) - Len(a) ELSE Len(a) - Len(b)

\* the matrix loop of lev, on strings that are already normalized
LevMatrix(a, b) ==
  LET
    RECURSIVE LevRows(_, _, _)
    \* row i of the Levenshtein matrix from row i - 1 (prev), filled left to
    \* right; row holds the entries 0..j-1 computed so far
    RECURSIVE LevRow(_, _, _, _)
    LevRow(prev1, a_i, b1, row) ==
      IF Len(row) = Len(b1) + 1 THEN row
      ELSE LET j == Len(row)
               cost == IF a_i = b1[j] THEN 0 ELSE 1
               v == Min(Min(prev1[j + 1] + 1, row[j] + 1), prev1[j] + cost)
           IN LevRow(prev1, a_i, b1, Append(row, v))
    \* the rows in turn; the first entry of row i is i
    LevRows(a1, b2, prev) ==
      IF prev[1] = Len(a1) THEN prev[Len(b2) + 1]
      ELSE LevRows(a1, b2, LevRow(prev, a1[prev[1] + 1], b2, <<prev[1] + 1>>))
  IN
  IF Len(a) = 0 THEN Len(b)
  ELSE IF Len(b) = 0 THEN Len(a)
  ELSE LevRows(a, b, [j \in 1..(Len(b) + 1) |-> j - 1])
lev(a, b) == LevMatrix(toNorm(a), toNorm(b))

\* A score is the pair <<num, den>> of the rational num / den, den > 0.
Rat(n, d) == <<n, d>>
RatLess(x, y) == x[1] * y[2] < y[1] * x[2]
RatCompare(x, y) == IF RatLess(x, y) THEN -1 ELSE IF RatLess(y, x) THEN 1 ELSE 0

\* qWords.filter((qw) => cWords.some((cw) => cw.includes(qw))).length
CountMatching(qWords, cWords) ==
  Cardinality({i \in 1..Len(qWords) : \E j \in 1..Len(cWords) : includes(cWords[j], qWords[i])})

\* 100 when the normalized candidate contains the normalized query, else
\* the blend of word overlap and edit-distance similarity
scoreCandidate(q, cand) ==
  LET
    \* (matchingWords / nq) * 0.7 + (1 - dist / L) * 0.3
    Blend(matchingWords, nq, dist, L) ==
      Rat(7 * matchingWords * L + 3 * (L - dist) * nq, 10 * nq * L)
    ScoreNorm(qs, cs) ==
      IF qs = <<>> THEN Rat(0, 1)
      ELSE IF includes(cs, qs) THEN Rat(100, 1)
      ELSE Blend(CountMatching(SplitWords(qs), SplitWords(cs)), Max(1, Len(SplitWords(qs))),
                 lev(qs, cs), Max(Len(qs), Len(cs)))
  IN
  ScoreNorm(toNorm(q), toNorm(cand))

\* 1 - dist / L >= tenths / 10
SimAtLeast(dist, L, tenths) == 10 * (L - dist) >= tenths * L

\* containment, whole-string similarity >= 0.6, or a pair of words of
\* length >= 3 with similarity >= 0.7
isFuzzyNameMatch(query, label) ==
  LET
    WordsSimilar(qWords, lWords) ==
      \E i \in 1..Len(qWords) : \E j \in 1..Len(lWords) :
        /\ Len(qWords[i]) >= 3
        /\ Len(lWords[j]) >= 3
        /\ SimAtLeast(lev(qWords[i], lWords[j]), Max(Len(qWords[i]), Len(lWords[j])), 7)
    FuzzyNorm(q, l) ==
      /\ q # <<>>
      /\ l # <<>>
      /\ \/ includes(l, q)
         \/ SimAtLeast(lev(q, l), Max(Len(q), Len(l)), 6)
         \/ WordsSimilar(SplitWords(q), SplitWords(l))
  IN
  FuzzyNorm(toNorm(query), toNorm(label))

\* { type, display: base, baseNorm: toNorm(base) } with base = brandCanonicalize(getBase(raw))
makeEntry(raw, type) ==
  LET
    EntryOf(base, type1) == [type |-> type1, display |-> base, baseNorm |-> toNorm(base)]
  IN
  EntryOf(brandCanonicalize(getBase(raw)), type)

\* trimmed, lower case, without scheme, leading www. and one trailing slash
normalizeUrl(u) ==
  LET
    \* replace(/^https?:\/\//, "")
    StripScheme(s) ==
      IF StartsWithAt(s, 1, <<"h","t","t","p",":","/","/">>) THEN SubSeq(s, 8, Len(s))
      ELSE IF StartsWithAt(s, 1, <<"h","t","t","p","s",":","/","/">>) THEN SubSeq(s, 9, Len(s))
      ELSE s
    \* replace(/^www\./, "")
    StripWww(s) == IF StartsWithAt(s, 1, <<"w","w","w",".">>) THEN SubSeq(s, 5, Len(s)) ELSE s
    \* if (s.endsWith("/")) s = s.slice(0, -1)
    DropSlash(s) == IF s # <<>> /\ s[Len(s)] = "/" THEN SubSeq(s, 1, Len(s) - 1) ELSE s
  IN
  DropSlash(StripWww(StripScheme(toLowerCase(trim(u)))))

normalizeText(s) == toNorm(s)

\* a fingerprint that also holds the coupon code (the behaviour C6 rules out)
offerKeyWithCoupon(offer) ==
  << normalizeText(OrElse(firstField(offer, LIST_FIELDS.title), Cell(offer, <<"W","e","b","s","i","t","e">>))),
     normalizeText(firstField(offer, LIST_FIELDS.desc)),
     normalizeUrl(OrElse(firstField(offer, LIST_FIELDS.image),
                         firstFieldByContains(offer, <<"i","m","a","g","e">>))),
     normalizeUrl(firstField(offer, LIST_FIELDS.link)),
     normalizeText(Cell(offer, <<"C","o","u","p","o","n"," ","C","o","d","e">>)) >>

\* the fingerprint `${title}||${desc}||${image}||${link}` as its four parts
offerKey(offer) ==
  << normalizeText(OrElse(firstField(offer, LIST_FIELDS.title), Cell(offer, <<"W","e","b","s","i","t","e">>))),
     normalizeText(firstField(offer, LIST_FIELDS.desc)),
     normalizeUrl(OrElse(firstField(offer, LIST_FIELDS.image),
                         firstFieldByContains(offer, <<"i","m","a","g","e">>))),
     normalizeUrl(firstField(offer, LIST_FIELDS.link)) >>

\* /\bcards?\b/.test(k)
LooksCards(k) == HasWord(k, <<"c","a","r","d">>) \/ HasWord(k, <<"c","a","r","d","s">>)
headerLooksCredit(key) == HasWord(toLowerCase(key), <<"c","r","e","d","i","t">>) /\ LooksCards(toLowerCase(key))
headerLooksEligibleCards(key) ==
  HasWord(toLowerCase(key), <<"e","l","i","g","i","b","l","e">>) /\ LooksCards(toLowerCase(key))

\* "debit", "credit" or "" from the type-like columns of a row
getRowTypeHint(row) ==
  LET
    RECURSIVE RowTypeHintFrom(_, _)
    \* /\bcard\s*type\b/.test(lk)
    HasCardType(lk1) ==
      \E i1 \in 1..Len(lk1) : \E j \in (i1 + 4)..Len(lk1) :
        /\ StartsWithAt(lk1, i1, <<"c","a","r","d">>) /\ WordBoundaryAt(lk1, i1)
        /\ \A n \in (i1 + 4)..(j - 1) : IsSpaceChar(lk1[n])
        /\ StartsWithAt(lk1, j, <<"t","y","p","e">>) /\ WordBoundaryAt(lk1, j + 4)
    \* the header is one that getRowTypeHint reads
    TypeLikeHeader(lk) ==
      HasWord(lk, <<"t","y","p","e">>) \/ HasCardType(lk) \/ HasWord(lk, <<"c","a","t","e","g","o","r","y">>) \/ HasWord(lk, <<"s","e","g","m","e","n","t">>)
    \* what the value of a type-like column says
    ValueHint(v) ==
      IF HasWord(v, <<"d","e","b","i","t">>) THEN "debit" ELSE IF HasWord(v, <<"c","r","e","d","i","t">>) THEN "credit" ELSE ""
    \* the first type-like column whose value says debit or credit decides
    HintOr(hint, row1, i2) == IF hint # "" THEN hint ELSE RowTypeHintFrom(row1, i2 + 1)
    RowTypeHintFrom(row2, i) ==
      IF i > Len(Headers) THEN ""
      ELSE IF TypeLikeHeader(LowerHeaders[i]) THEN HintOr(ValueHint(toLowerCase(row2[i])), row2, i)
      ELSE RowTypeHintFrom(row2, i + 1)
  IN
  RowTypeHintFrom(row, 1)

valueLooksDebit(s) == HasWord(toLowerCase(s), <<"d","e","b","i","t">>)

(***************************************************************************)
(* CSV contents served to the AirlineOffers component                      *)
(***************************************************************************)
E == <<>>

\* a parsed row from its cells, in the column order of Headers
MkRow(cc, dc, mixed, ctype, upi, nb, offer, title, desc, image, link, coupon) ==
  <<cc, dc, mixed, ctype, upi, nb, offer, title, desc, image, link, coupon, E>>

\* /allCards.csv
\* An allCards sheet whose first credit token has two trailing groups and
\* whose second token is the same card without any, plus a "Select" card
AllCardsNestedCsv ==
  << MkRow(<<"H","D","F","C"," ","R","e","g","a","l","i","a"," ","(","V","i","s","a",")"," ","(","G","o","l","d",")",","," ","H","D","F","C"," ","R","e","g","a","l","i","a",","," ","A","x","i","s"," ","S","e","l","e","c","t">>, E, E, E, E, E, E, E, E, E, E, E) >>

AllCardsCsv ==
  << MkRow(<<"H","D","F","C"," ","R","e","g","a","l","i","a"," ","(","V","i","s","a",")",","," ","h","d","f","c"," ","m","i","l","l","e","n","n","i","a",","," ","S","B","I"," ","S","i","m","p","l","y","C","L","I","C","K">>, <<"H","D","F","C"," ","M","i","l","l","e","n","n","i","a"," ","D","e","b","i","t">>,
           E, E, <<"G","P","a","y">>, E, E, E, E, E, E, E) >>

\* rows that can appear in /Swiggy.csv and /Zomato.csv
RowRegaliaVisa ==
  MkRow(<<"H","D","F","C"," ","R","e","g","a","l","i","a"," ","(","V","i","s","a",")">>, E, E, E, E, E, <<"1","0","%"," ","o","f","f">>, <<"T","1">>, <<"D","1">>, E, <<"h","t","t","p","s",":","/","/","w","w","w",".","L","1","/">>, <<"S","W","1","0">>)
RowRegaliaOtherCoupon ==
  MkRow(<<"H","D","F","C"," ","R","e","g","a","l","i","a">>, E, E, E, E, E, <<"1","0","%"," ","o","f","f">>, <<"T","1">>, <<"D","1">>, E, <<"h","t","t","p","s",":","/","/","w","w","w",".","L","1","/">>, <<"Z","O","1","0">>)
RowRegaliaOtherImage ==
  MkRow(<<"H","D","F","C"," ","R","e","g","a","l","i","a">>, E, E, E, E, E, <<"1","0","%"," ","o","f","f">>, <<"T","1">>, <<"D","1">>, <<"I","1">>, <<"h","t","t","p","s",":","/","/","w","w","w",".","L","1","/">>, <<"Z","O","2","0">>)
RowPlainThenVariant ==
  MkRow(<<"H","D","F","C"," ","R","e","g","a","l","i","a",","," ","H","d","f","c"," ","R","e","g","a","l","i","a"," ","(","V","i","s","a"," ","S","i","g","n","a","t","u","r","e",")">>, E, E, E, E, E, <<"5","%"," ","o","f","f">>, <<"T","2">>, E, E, E, E)
RowMixedDebitHint ==
  MkRow(E, E, <<"H","D","F","C"," ","R","e","g","a","l","i","a">>, <<"D","e","b","i","t">>, E, E, E, <<"T","3">>, E, E, E, E)
RowSecondToken ==
  MkRow(<<"S","B","I"," ","S","i","m","p","l","y","C","L","I","C","K"," ","(","V","i","s","a",")"," ","/"," ","H","D","F","C"," ","R","e","g","a","l","i","a"," ","(","M","a","s","t","e","r","c","a","r","d",")">>, E, E, E, E, E, E, <<"t","1"," ">>, <<"D","1">>, E, <<"h","t","t","p",":","/","/","l","1">>, E)
RowDebitUpi ==
  MkRow(E, <<"H","D","F","C"," ","M","i","l","l","e","n","n","i","a"," ","D","e","b","i","t"," ","(","R","u","P","a","y",")">>, E, E, <<"G","P","a","y"," ","a","n","d"," ","P","h","o","n","e","P","e">>, <<"S","B","I">>, E, <<"T","5">>, E, E, E, E)

SwiggyCsv == << RowRegaliaVisa, RowDebitUpi >>
ZomatoCsv == << RowRegaliaOtherCoupon, RowPlainThenVariant >>

\* the rows the offer tables of SpecMatch are drawn from
SwiggyPool == { RowRegaliaVisa, RowRegaliaOtherImage, RowMixedDebitHint, RowDebitUpi }
ZomatoPool == { RowRegaliaOtherCoupon, RowPlainThenVariant, RowSecondToken, RowRegaliaVisa }

\* every row an offer file of the model can hold
OfferRows == SwiggyPool \cup ZomatoPool \cup Range(SwiggyCsv) \cup Range(ZomatoCsv)

(***************************************************************************)
(* AirlineOffers (part_003): state                                         *)
(***************************************************************************)
VARIABLES
  creditEntries, debitEntries, upiEntries, netBankingEntries,  \* dropdown data
  chipCC, chipDC, chipUPI, chipNB,                             \* chip strips
  filteredCards, query, selected, noMatches,                   \* ui state
  swiggyOffers, zomatoOffers,                                  \* offer rows
  allCardsLoad,   \* loadAllCards: "pending", "loaded" or "failed"
  offerLoad,      \* loadOffers, per file: "pending", "loaded" or "failed"
  csv,            \* the contents the server holds: allCards, Swiggy, Zomato
  lastOp          \* the handler or completion that ran last

widgetVars ==
  << creditEntries, debitEntries, upiEntries, netBankingEntries,
     chipCC, chipDC, chipUPI, chipNB, filteredCards, query, selected, noMatches,
     swiggyOffers, zomatoOffers, allCardsLoad, offerLoad, csv, lastOp >>

\* useState(null) for selected
Null == [type |-> "null", display |-> <<>>, baseNorm |-> <<>>]

\* a heading when the group is non-empty, then the group
Group(label, arr) ==
  LET
    Heading(label1) == [type |-> "heading", display |-> label1, baseNorm |-> <<>>]
  IN
  (IF arr # <<>> THEN <<Heading(label)>> ELSE <<>>) \o arr

(***************************************************************************)
(* A JavaScript Map from baseNorm to display: a sequence of pairs in       *)
(* insertion order.  map.set(k, map.get(k) || v) keeps the first display.  *)
(***************************************************************************)
MapSetFirst(map, k, v) ==
  LET
    MapHas(map1, k1) == \E i \in 1..Len(map1) : map1[i].k = k1
  IN
  IF MapHas(map, k) THEN map ELSE Append(map, [k |-> k, v |-> v])

\* harvestList(val, targetMap): the tokens of a cell added to a map
harvestList(val, targetMap) ==
  LET
    RECURSIVE harvestTokens(_, _)
    \* the body of the loop "for (const raw of list)": base, baseNorm and
    \* "if (baseNorm) map.set(baseNorm, map.get(baseNorm) || base)"
    HarvestNorm(targetMap1, baseNorm, base1) ==
      IF baseNorm # <<>> THEN MapSetFirst(targetMap1, baseNorm, base1) ELSE targetMap1
    HarvestBase(targetMap2, base) ==
      HarvestNorm(targetMap2, toNorm(base), base)
    harvestTokens(tokens, targetMap3) ==
      IF tokens = <<>> THEN targetMap3
      ELSE harvestTokens(Tail(tokens),
                         HarvestBase(targetMap3, brandCanonicalize(getBase(Head(tokens)))))
  IN
  harvestTokens(splitList(val), targetMap)

\* Array.from(map.values()).sort((a, b) => a.localeCompare(b))
SortedValues(map) ==
  LET
    MapValues(map1) == [i \in 1..Len(map1) |-> map1[i].v]
  IN
  SortBy(localeCompare, MapValues(map))

Entries(displays, type) == [i \in 1..Len(displays) |-> makeEntry(displays[i], type)]

(***************************************************************************)
(* loadAllCards                                                            *)
(***************************************************************************)

EmptyMaps == [credit |-> <<>>, debit |-> <<>>, upi |-> <<>>, netbanking |-> <<>>]

\* the catalog loadAllCards derives from the rows of allCards.csv
CatalogOf(rows) ==
  LET
    RECURSIVE CatalogMaps(_, _)
    CatalogMaps(rows1, maps) ==
      IF rows1 = <<>> THEN maps
      ELSE CatalogMaps(Tail(rows1),
             [ credit |-> harvestList(firstField(Head(rows1), LIST_FIELDS.credit), maps.credit),
               debit |-> harvestList(firstField(Head(rows1), LIST_FIELDS.debit), maps.debit),
               upi |-> harvestList(OrElse(firstField(Head(rows1), LIST_FIELDS.upi),
                                          firstFieldByContains(Head(rows1), <<"u","p","i">>)),
                                   maps.upi),
               netbanking |->
                 harvestList(OrElse(firstField(Head(rows1), LIST_FIELDS.netbanking),
                                    OrElse(firstFieldByContains(Head(rows1), <<"n","e","t"," ","b","a","n","k">>),
                                           firstFieldByContains(Head(rows1), <<"n","e","t","b","a","n","k">>))),
                             maps.netbanking) ])
    \* the four entry lists loadAllCards builds from its maps
    CatalogFrom(maps) ==
      [ credit |-> Entries(SortedValues(maps.credit), "credit"),
        debit |-> Entries(SortedValues(maps.debit), "debit"),
        upi |-> Entries(SortedValues(maps.upi), "upi"),
        netbanking |-> Entries(SortedValues(maps.netbanking), "netbanking") ]
  IN
  CatalogFrom(CatalogMaps(rows, EmptyMaps))

\* the dropdown list with every group under its heading
AllGroups(credit, debit, upi, netBanking) ==
  Group(<<"C","r","e","d","i","t"," ","C","a","r","d","s">>, credit) \o Group(<<"D","e","b","i","t"," ","C","a","r","d","s">>, debit)
    \o Group(<<"U","P","I">>, upi) \o Group(<<"N","e","t"," ","B","a","n","k","i","n","g">>, netBanking)

\* axios.get resolved: the try block of loadAllCards
AllCardsLoaded ==
  LET
    IsEmptyCatalog(cat1) ==
      cat1.credit = <<>> /\ cat1.debit = <<>> /\ cat1.upi = <<>> /\ cat1.netbanking = <<>>
    \* the setters at the end of the try block of loadAllCards
    SetCatalog(cat) ==
      /\ creditEntries' = cat.credit
      /\ debitEntries' = cat.debit
      /\ upiEntries' = cat.upi
      /\ netBankingEntries' = cat.netbanking
      /\ filteredCards' = AllGroups(cat.credit, cat.debit, cat.upi, cat.netbanking)
      /\ noMatches' = IF IsEmptyCatalog(cat) THEN TRUE ELSE noMatches
      /\ selected' = IF IsEmptyCatalog(cat) THEN Null ELSE selected
  IN
  /\ allCardsLoad = "pending"
  /\ \E cat \in {CatalogOf(csv.allCards)} : SetCatalog(cat)
  /\ allCardsLoad' = "loaded"
  /\ lastOp' = <<"loadAllCards">>
  /\ UNCHANGED <<chipCC, chipDC, chipUPI, chipNB, query, swiggyOffers, zomatoOffers, offerLoad, csv>>

\* axios.get rejected: the catch block of loadAllCards
AllCardsFailed ==
  /\ allCardsLoad = "pending"
  /\ noMatches' = TRUE
  /\ selected' = Null
  /\ allCardsLoad' = "failed"
  /\ lastOp' = <<"loadAllCards">>
  /\ UNCHANGED <<creditEntries, debitEntries, upiEntries, netBankingEntries,
                 chipCC, chipDC, chipUPI, chipNB, filteredCards, query,
                 swiggyOffers, zomatoOffers, offerLoad, csv>>

(***************************************************************************)
(* The chip-strip effect, run after swiggyOffers or zomatoOffers changes   *)
(***************************************************************************)


\* mixedHeaders.forEach(({ value }) => ...)
RECURSIVE harvestMixed(_, _, _)
harvestMixed(mixedHeaders, typeHint, maps) ==
  LET
    RECURSIVE harvestMixedTokens(_, _)
    valueLooksCredit(s) == HasWord(toLowerCase(s), <<"c","r","e","d","i","t">>)
    \* per-token classification of a mixed cell without a row type hint
    MixedNorm(maps1, tok1, base1, baseNorm) ==
      IF baseNorm = <<>> THEN maps1
      ELSE IF valueLooksDebit(tok1) THEN [maps1 EXCEPT !.debit = MapSetFirst(@, baseNorm, base1)]
      ELSE IF valueLooksCredit(tok1) THEN [maps1 EXCEPT !.credit = MapSetFirst(@, baseNorm, base1)]
      ELSE maps1
    MixedToken(maps2, tok, base) ==
      MixedNorm(maps2, tok, base, toNorm(base))
    harvestMixedTokens(tokens, maps3) ==
      IF tokens = <<>> THEN maps3
      ELSE harvestMixedTokens(Tail(tokens),
             MixedToken(maps3, Head(tokens), brandCanonicalize(getBase(Head(tokens)))))
  IN
  IF mixedHeaders = <<>> THEN maps
  ELSE harvestMixed(Tail(mixedHeaders), typeHint,
         IF typeHint = "debit"
           THEN [maps EXCEPT !.debit = harvestList(Head(mixedHeaders).value, @)]
         ELSE IF typeHint = "credit"
           THEN [maps EXCEPT !.credit = harvestList(Head(mixedHeaders).value, @)]
         ELSE harvestMixedTokens(splitList(Head(mixedHeaders).value), maps))

\* the explicit fields of one row
HarvestExplicit(o, maps) ==
  [ credit |-> harvestList(OrElse(firstField(o, LIST_FIELDS.credit),
                                  OrElse(firstFieldByContains(o, <<"e","l","i","g","i","b","l","e"," ","c","r","e","d","i","t">>),
                                         firstFieldByContains(o, <<"c","r","e","d","i","t"," ","c","a","r","d">>))),
                           maps.credit),
    debit |-> harvestList(OrElse(firstField(o, LIST_FIELDS.debit),
                                 OrElse(firstFieldByContains(o, <<"e","l","i","g","i","b","l","e"," ","d","e","b","i","t">>),
                                        firstFieldByContains(o, <<"d","e","b","i","t"," ","c","a","r","d">>))),
                          maps.debit),
    upi |-> harvestList(OrElse(firstField(o, LIST_FIELDS.upi), firstFieldByContains(o, <<"u","p","i">>)),
                        maps.upi),
    netbanking |-> harvestList(OrElse(firstField(o, LIST_FIELDS.netbanking),
                                      OrElse(firstFieldByContains(o, <<"n","e","t"," ","b","a","n","k">>),
                                             firstFieldByContains(o, <<"n","e","t","b","a","n","k">>))),
                               maps.netbanking) ]


\* rows.forEach((o) => ...): the explicit fields of a row, then its mixed headers
RECURSIVE harvestRows(_, _)
harvestRows(rows, maps) ==
  LET
    \* a header that names cards without saying credit or debit
    IsMixedHeader(k) ==
      LET
        headerLooksDebit(key) == HasWord(toLowerCase(key), <<"d","e","b","i","t">>) /\ LooksCards(toLowerCase(key))
        \* the effect's own headerLooksCards: /\bcards?\b/i.test(k)
        headerLooksCards(k1) == LooksCards(toLowerCase(k1))
      IN
      headerLooksCards(k) /\ ~headerLooksCredit(k) /\ ~headerLooksDebit(k)
    \* the mixed headers of one row, after its explicit fields
    HarvestMixedHeaders(o, mixedHeaders, maps1) ==
      IF mixedHeaders # <<>> THEN harvestMixed(mixedHeaders, getRowTypeHint(o), maps1) ELSE maps1
  IN
  IF rows = <<>> THEN maps
  ELSE harvestRows(Tail(rows),
         HarvestMixedHeaders(Head(rows), entriesWhereKey(Head(rows), IsMixedHeader),
                             HarvestExplicit(Head(rows), maps)))

\* the chip maps of the effect for the given offer states
ChipMaps(sw, zo) == harvestRows(zo, harvestRows(sw, EmptyMaps))

\* the merge of the effect: prev, then the incoming entries with new keys,
\* sorted by display; prev itself when nothing is incoming
mergeEntries(prev, incoming) ==
  LET
    \* new Map(prev.map((e) => [e.baseNorm, e])): a repeated key keeps its first
    \* position and takes the last entry
    RECURSIVE MapOfEntries(_, _)
    MapOfEntries(acc, prev1) ==
      IF prev1 = <<>> THEN acc
      ELSE MapOfEntries(IF \E i \in 1..Len(acc) : acc[i].baseNorm = Head(prev1).baseNorm
                          THEN [i \in 1..Len(acc) |->
                                  IF acc[i].baseNorm = Head(prev1).baseNorm THEN Head(prev1) ELSE acc[i]]
                          ELSE Append(acc, Head(prev1)),
                        Tail(prev1))
    \* incoming.forEach((e) => { if (!map.has(e.baseNorm)) map.set(e.baseNorm, e) })
    RECURSIVE mergeInto(_, _)
    mergeInto(acc, incoming1) ==
      IF incoming1 = <<>> THEN acc
      ELSE mergeInto(IF \E i \in 1..Len(acc) : acc[i].baseNorm = Head(incoming1).baseNorm
                       THEN acc ELSE Append(acc, Head(incoming1)),
                     Tail(incoming1))
    CompareDisplay(a, b) == localeCompare(a.display, b.display)
  IN
  IF incoming = <<>> THEN prev
  ELSE SortBy(CompareDisplay, mergeInto(MapOfEntries(<<>>, prev), incoming))

\* the whole effect for the offer states sw and zo; the maps are built once
ChipEffect(sw, zo) ==
  LET
    \* the setters of the effect, given its four sorted chip lists
    SetChips(ccChips, dcChips, upiChips, nbChips) ==
      /\ chipCC' = ccChips
      /\ chipDC' = dcChips
      /\ chipUPI' = upiChips
      /\ chipNB' = nbChips
      /\ upiEntries' = IF upiChips # <<>> THEN mergeEntries(upiEntries, Entries(upiChips, "upi"))
                       ELSE upiEntries
      /\ netBankingEntries' =
           IF nbChips # <<>> THEN mergeEntries(netBankingEntries, Entries(nbChips, "netbanking"))
           ELSE netBankingEntries
    SetChipsFrom(maps) ==
      SetChips(SortedValues(maps.credit), SortedValues(maps.debit),
               SortedValues(maps.upi), SortedValues(maps.netbanking))
  IN
  \E maps \in {ChipMaps(sw, zo)} : SetChipsFrom(maps)

(***************************************************************************)
(* loadOffers: the two files are fetched concurrently under Promise.all;   *)
(* each file's callback stores its rows when its own fetch resolves        *)
(***************************************************************************)
Sites == {"Swiggy", "Zomato"}

\* a loader that waits for both files: it stores a file's rows only while
\* the other file has not failed (the behaviour C3 rules out)
OfferFileLoadedAllOrNothing(site) ==
  /\ offerLoad[site] = "pending"
  /\ offerLoad' = [offerLoad EXCEPT ![site] = "loaded"]
  /\ lastOp' = <<"loadOffers", site, "loaded">>
  /\ swiggyOffers' = IF site = "Swiggy" /\ offerLoad["Zomato"] # "failed"
                       THEN csv.Swiggy ELSE swiggyOffers
  /\ zomatoOffers' = IF site = "Zomato" /\ offerLoad["Swiggy"] # "failed"
                       THEN csv.Zomato ELSE zomatoOffers
  /\ ChipEffect(swiggyOffers', zomatoOffers')
  /\ UNCHANGED <<creditEntries, debitEntries, filteredCards, query, selected, noMatches,
                 allCardsLoad, csv>>

\* the fetch of one file resolves: its callback parses and stores the rows,
\* whatever happened to the other file, and the chip effect runs
OfferFileLoaded(site) ==
  /\ offerLoad[site] = "pending"
  /\ offerLoad' = [offerLoad EXCEPT ![site] = "loaded"]
  /\ lastOp' = <<"loadOffers", site, "loaded">>
  /\ swiggyOffers' = IF site = "Swiggy" THEN csv.Swiggy ELSE swiggyOffers
  /\ zomatoOffers' = IF site = "Zomato" THEN csv.Zomato ELSE zomatoOffers
  /\ ChipEffect(swiggyOffers', zomatoOffers')
  /\ UNCHANGED <<creditEntries, debitEntries, filteredCards, query, selected, noMatches,
                 allCardsLoad, csv>>

\* the fetch of one file rejects: Promise.all rejects and the catch block logs
OfferFileFailed(site) ==
  /\ offerLoad[site] = "pending"
  /\ offerLoad' = [offerLoad EXCEPT ![site] = "failed"]
  /\ lastOp' = <<"loadOffers", site, "failed">>
  /\ UNCHANGED <<creditEntries, debitEntries, upiEntries, netBankingEntries,
                 chipCC, chipDC, chipUPI, chipNB, filteredCards, query, selected, noMatches,
                 swiggyOffers, zomatoOffers, allCardsLoad, csv>>

(***************************************************************************)
(* The search box                                                          *)
(***************************************************************************)

\* slice(0, n)
Take(s, n) == SubSeq(s, 1, Min(Len(s), n))

\* every entry gets the same score
rankScoreFlat(trimmed, display) == Rat(0, 1)

\* the score s that scored(arr) gives an entry: baseScore with its boosts
rankScore(trimmed, display) ==
  LET
    RatAdd(x, y) == <<x[1] * y[2] + y[1] * x[2], x[2] * y[2]>>
    \* if (cond) s += by
    Boost(s, cond, by) ==
      IF cond THEN RatAdd(s, by) ELSE s
  IN
  Boost(Boost(scoreCandidate(trimmed, display),
              includes(toLowerCase(display), toLowerCase(trimmed)), Rat(2, 1)),
        isFuzzyNameMatch(trimmed, display), Rat(3, 2))

\* scored(arr) of onChangeQuery: score, boost, filter, sort, cut, unwrap
scored(trimmed, arr) ==
  LET
    \* one candidate of scored(arr): the entry, its boosted score and its flags
    ScoredItem(trimmed1, it) ==
      [it |-> it, s |-> rankScore(trimmed1, it.display),
       inc |-> includes(toLowerCase(it.display), toLowerCase(trimmed1)),
       fuzzy |-> isFuzzyNameMatch(trimmed1, it.display)]
    \* the relevance filter of scored(arr): inc || fuzzy || s > 0.3
    Relevant(x) == x.inc \/ x.fuzzy \/ RatLess(Rat(3, 10), x.s)
    \* b.s - a.s || a.it.display.localeCompare(b.it.display)
    CompareScored(a, b) == OrSign(RatCompare(b.s, a.s), localeCompare(a.it.display, b.it.display))
    \* map(({ it }) => it)
    ItemsOf(top) == [i \in 1..Len(top) |-> top[i].it]
  IN
  ItemsOf(Take(SortBy(CompareScored,
                      Filter(Relevant, [i \in 1..Len(arr) |-> ScoredItem(trimmed, arr[i])])),
               MAX_SUGGESTIONS))




\* onChangeQuery after the blank test, with the four scored lists
ShowScored(trimmed, cc, dc, upi, nb) ==
  LET
    \* the query asks for "select" cards
    isSelectIntent(qNorm) ==
      LET
        hasSelectWord(qWords) ==
          \E i \in 1..Len(qWords) :
            \/ qWords[i] = <<"s","e","l","e","c","t">>
            \/ SimAtLeast(lev(qWords[i], <<"s","e","l","e","c","t">>), Max(Len(qWords[i]), 6), 7)
      IN
      \/ includes(qNorm, <<"s","e","l","e","c","t"," ","c","r","e","d","i","t"," ","c","a","r","d">>)
      \/ includes(qNorm, <<"s","e","l","e","c","t"," ","c","a","r","d">>)
      \/ hasSelectWord(SplitWords(qNorm))
    \* entries whose display contains "select" first, order otherwise kept
    reorderBySelect(arr) ==
      LET
        IsSelectCard(item) == includes(toLowerCase(item.display), <<"s","e","l","e","c","t">>)
        IsOtherCard(item) == ~IsSelectCard(item)
      IN
      Filter(IsSelectCard, arr) \o Filter(IsOtherCard, arr)
    \* the query asks for debit cards
    isDebitIntent(qLower) ==
      LET
        EndsWith(s, t) == Len(t) <= Len(s) /\ SubSeq(s, Len(s) - Len(t) + 1, Len(s)) = t
      IN
      \/ includes(qLower, <<"d","e","b","i","t"," ","c","a","r","d">>)
      \/ includes(qLower, <<"d","e","b","i","t">>)
      \/ qLower = <<"d","c">>
      \/ StartsWithAt(qLower, 1, <<"d","c"," ">>)
      \/ EndsWith(qLower, <<" ","d","c">>)
      \/ includes(qLower, <<" ","d","c"," ">>)
    \* if (isSelectIntent) arr = reorderBySelect(arr)
    ReorderedIf(selectIntent1, arr) == IF selectIntent1 THEN reorderBySelect(arr) ELSE arr
    \* the two orders of the dropdown list
    GroupsInOrder(debitIntent1, cc1, dc1, upi1, nb1) ==
      IF debitIntent1
        THEN Group(<<"D","e","b","i","t"," ","C","a","r","d","s">>, dc1) \o Group(<<"C","r","e","d","i","t"," ","C","a","r","d","s">>, cc1)
               \o Group(<<"U","P","I">>, upi1) \o Group(<<"N","e","t"," ","B","a","n","k","i","n","g">>, nb1)
        ELSE Group(<<"C","r","e","d","i","t"," ","C","a","r","d","s">>, cc1) \o Group(<<"D","e","b","i","t"," ","C","a","r","d","s">>, dc1)
               \o Group(<<"U","P","I">>, upi1) \o Group(<<"N","e","t"," ","B","a","n","k","i","n","g">>, nb1)
    SuggestionsFor(selectIntent, debitIntent, cc2, dc2, upi2, nb2) ==
      GroupsInOrder(debitIntent, ReorderedIf(selectIntent, cc2), ReorderedIf(selectIntent, dc2), upi2, nb2)
  IN
  IF cc = <<>> /\ dc = <<>> /\ upi = <<>> /\ nb = <<>>
    THEN /\ noMatches' = TRUE
         /\ selected' = Null
         /\ filteredCards' = <<>>
    ELSE /\ noMatches' = FALSE
         /\ filteredCards' = SuggestionsFor(isSelectIntent(toNorm(trimmed)),
                                            isDebitIntent(toLowerCase(trimmed)), cc, dc, upi, nb)
         /\ UNCHANGED selected

onChangeQuery(val) ==
  /\ query' = val
  /\ IF trim(val) = <<>>
       THEN /\ filteredCards' = <<>>
            /\ selected' = Null
            /\ noMatches' = FALSE
       ELSE \E cc \in {scored(trim(val), creditEntries)}, dc \in {scored(trim(val), debitEntries)},
               upi \in {scored(trim(val), upiEntries)}, nb \in {scored(trim(val), netBankingEntries)} :
              ShowScored(trim(val), cc, dc, upi, nb)
  /\ lastOp' = <<"onChangeQuery">>
  /\ UNCHANGED <<creditEntries, debitEntries, upiEntries, netBankingEntries,
                 chipCC, chipDC, chipUPI, chipNB, swiggyOffers, zomatoOffers,
                 allCardsLoad, offerLoad, csv>>

\* the dropdown list is rendered
DropdownVisible == trim(query) # <<>> /\ filteredCards # <<>>

onPick(entry) ==
  /\ selected' = entry
  /\ query' = entry.display
  /\ filteredCards' = <<>>
  /\ noMatches' = FALSE
  /\ lastOp' = <<"onPick">>
  /\ UNCHANGED <<creditEntries, debitEntries, upiEntries, netBankingEntries,
                 chipCC, chipDC, chipUPI, chipNB, swiggyOffers, zomatoOffers,
                 allCardsLoad, offerLoad, csv>>

\* handleChipClick without its setNoMatches(false)
handleChipClickKeepNoMatches(name, type) ==
  /\ query' = brandCanonicalize(getBase(name))
  /\ selected' = [type |-> type, display |-> brandCanonicalize(getBase(name)),
                  baseNorm |-> toNorm(brandCanonicalize(getBase(name)))]
  /\ filteredCards' = <<>>
  /\ lastOp' = <<"handleChipClick">>
  /\ UNCHANGED <<creditEntries, debitEntries, upiEntries, netBankingEntries,
                 chipCC, chipDC, chipUPI, chipNB, swiggyOffers, zomatoOffers,
                 allCardsLoad, offerLoad, csv, noMatches>>

\* a click on a chip of the strips
handleChipClick(name, type) ==
  LET
    \* setQuery(display); setSelected({ type, display, baseNorm })
    SelectDisplay(display, type1) ==
      /\ query' = display
      /\ selected' = [type |-> type1, display |-> display, baseNorm |-> toNorm(display)]
  IN
  /\ SelectDisplay(brandCanonicalize(getBase(name)), type)
  /\ filteredCards' = <<>>
  /\ noMatches' = FALSE
  /\ lastOp' = <<"handleChipClick">>
  /\ UNCHANGED <<creditEntries, debitEntries, upiEntries, netBankingEntries,
                 chipCC, chipDC, chipUPI, chipNB, swiggyOffers, zomatoOffers,
                 allCardsLoad, offerLoad, csv>>

\* the chips on screen, each with the type its strip passes to handleChipClick
Chips ==
  {<<chipCC[i], "credit">> : i \in 1..Len(chipCC)}
    \cup {<<chipDC[i], "debit">> : i \in 1..Len(chipDC)}
    \cup {<<chipUPI[i], "upi">> : i \in 1..Len(chipUPI)}
    \cup {<<chipNB[i], "netbanking">> : i \in 1..Len(chipNB)}

(***************************************************************************)
(* Matching and dedup, computed at every render                            *)
(***************************************************************************)

\* the tokens of the row that matchesFor compares with the selection
TokenList(o, type) ==
  LET
    \* the debit branch of matchesFor: explicit debit columns, then a mixed
    \* column under a debit type hint, then every token that says debit
    DebitExplicit(o2) ==
      splitList(OrElse(firstField(o2, LIST_FIELDS.debit),
                       OrElse(firstFieldByContains(o2, <<"e","l","i","g","i","b","l","e"," ","d","e","b","i","t">>),
                              firstFieldByContains(o2, <<"d","e","b","i","t"," ","c","a","r","d">>))))
    DebitHinted(o3, dc) ==
      IF dc # <<>> THEN dc
      ELSE IF getRowTypeHint(o3) = "debit"
        THEN splitList(OrElse(firstFieldByContains(o3, <<"e","l","i","g","i","b","l","e"," ","c","a","r","d","s">>),
                              firstFieldByContains(o3, <<"c","a","r","d","s">>)))
      ELSE <<>>
    DebitFallback(o1, dc) ==
      IF dc # <<>> THEN dc ELSE Filter(valueLooksDebit, FlatMap(splitList, o1))
    DebitList(o4) ==
      DebitFallback(o4, DebitHinted(o4, DebitExplicit(o4)))
    CreditList(o5) ==
      splitList(OrElse(firstField(o5, LIST_FIELDS.credit),
                       OrElse(firstFieldByContains(o5, <<"e","l","i","g","i","b","l","e"," ","c","r","e","d","i","t">>),
                              OrElse(firstFieldByContains(o5, <<"c","r","e","d","i","t"," ","c","a","r","d">>),
                                     firstFieldByContains(o5, <<"e","l","i","g","i","b","l","e"," ","c","a","r","d","s">>)))))
  IN
  IF type = "debit" THEN DebitList(o)
  ELSE IF type = "upi"
    THEN splitList(OrElse(firstField(o, LIST_FIELDS.upi), firstFieldByContains(o, <<"u","p","i">>)))
  ELSE IF type = "netbanking" \/ type = "net banking"
    THEN splitList(OrElse(firstField(o, LIST_FIELDS.netbanking),
                          OrElse(firstFieldByContains(o, <<"n","e","t"," ","b","a","n","k">>),
                                 firstFieldByContains(o, <<"n","e","t","b","a","n","k">>))))
  ELSE CreditList(o)

\* the selection types matchesFor is called with
Types == {"credit", "debit", "upi", "netbanking"}

\* TokenList of every row and type, computed once
TokenListOf[o \in OfferRows, type \in Types] == TokenList(o, type)


\* toNorm(brandCanonicalize(getBase(raw))) of every token matchesFor can meet,
\* computed once
BaseNormOf[raw \in UNION {Range(TokenList(o, type)) : o \in OfferRows, type \in Types}] ==
  toNorm(brandCanonicalize(getBase(raw)))

\* a comparison that accepts a token only when it carries no variant (the
\* behaviour C8 rules out)
TokenMatchesWithoutVariant(raw, baseNorm) == BaseNormOf[raw] = baseNorm /\ getVariant(raw) = <<>>

\* toNorm(brandCanonicalize(getBase(raw))) === selected.baseNorm
TokenMatches(raw, baseNorm) == BaseNormOf[raw] = baseNorm

\* the loop of matchesFor over the offers of one file
RECURSIVE MatchRows(_, _, _, _)
MatchRows(offers, type, site, baseNorm) ==
  LET
    \* the loop over the tokens: stops at the first token whose base is the
    \* selection's; the result is <<matched, matchedVariant>>
    RECURSIVE MatchTokens(_, _)
    MatchTokens(list, baseNorm1) ==
      IF list = <<>> THEN <<FALSE, <<>>>>
      ELSE IF TokenMatches(Head(list), baseNorm1) THEN <<TRUE, getVariant(Head(list))>>
      ELSE MatchTokens(Tail(list), baseNorm1)
    \* if (matched) out.push({ offer: o, site, variantText: matchedVariant })
    WrapperIf(o, site1, m) ==
      IF m[1] THEN <<[offer |-> o, site |-> site1, variantText |-> m[2]]>> ELSE <<>>
  IN
  IF offers = <<>> THEN <<>>
  ELSE WrapperIf(Head(offers), site, MatchTokens(TokenListOf[Head(offers), type], baseNorm))
         \o MatchRows(Tail(offers), type, site, baseNorm)

matchesFor(offers, type, site) ==
  IF selected = Null THEN <<>> ELSE MatchRows(offers, type, site, selected.baseNorm)

\* offerKey of every row, computed once
KeyOf[o \in OfferRows] == offerKey(o)

RECURSIVE dedupWrappers(_, _)

\* a loop body without `if (seen.has(k)) continue` (the behaviour C5 rules out)
DedupKeepAll(arr, seen, k) == <<Head(arr)>> \o dedupWrappers(Tail(arr), seen \cup {k})

\* dedupWrappers(arr, seen): the kept wrappers, in order; seen is the set of
\* fingerprints met before arr, k the fingerprint of the first wrapper
DedupStep(arr, seen, k) ==
  IF k \in seen THEN dedupWrappers(Tail(arr), seen)
  ELSE <<Head(arr)>> \o dedupWrappers(Tail(arr), seen \cup {k})
dedupWrappers(arr, seen) ==
  IF arr = <<>> THEN <<>> ELSE DedupStep(arr, seen, KeyOf[Head(arr).offer])

\* the fingerprints dedupWrappers has added to seen after arr
SeenAfter(arr, seen) == seen \cup {KeyOf[arr[i].offer] : i \in 1..Len(arr)}

wSwiggy == matchesFor(swiggyOffers, selected.type, "Swiggy")
wZomato == matchesFor(zomatoOffers, selected.type, "Zomato")
dSwiggy == dedupWrappers(wSwiggy, {})
dZomato == dedupWrappers(wZomato, SeenAfter(wSwiggy, {}))
hasAny == dSwiggy # <<>> \/ dZomato # <<>>

\* OfferCard: the red variant note is shown
showVariantNote(wrapper) == wrapper.site \in VARIANT_NOTE_SITES /\ trim(wrapper.variantText) # <<>>

\* what the render shows
OffersSectionShown == selected # Null /\ hasAny /\ ~noMatches
NoOfferMessageShown == selected # Null /\ ~hasAny /\ ~noMatches
NoMatchMessageShown == noMatches /\ trim(query) # <<>>

(***************************************************************************)
(* CreditCardDropdown (src/src/App.jsx): helpers                           *)
(***************************************************************************)

\* App.jsx normalizeCardName: trim, lower case, capitalised words,
\* white space collapsed
normalizeCardName(name) ==
  LET
    \* String.prototype.toUpperCase, one character
    UpperChar(c) ==
      IF c \in DOMAIN LowerIndex THEN UpperLetters[LowerIndex[c]]
      ELSE IF c = "e_acute" THEN "E_ACUTE" ELSE c
    \* .replace(/\b\w/g, c => c.toUpperCase()): the first character of each word
    CapitalizeWords(s) ==
      [i \in 1..Len(s) |-> IF IsWordChar(s[i]) /\ WordBoundaryAt(s, i) THEN UpperChar(s[i]) ELSE s[i]]
  IN
  IF name = <<>> THEN <<>>
  ELSE CollapseSpaces(CapitalizeWords(toLowerCase(trim(name))))

\* name.replace(/\s*\([^)]*\)$/, '').trim(): the group must end the string
getBaseCardName(name) == BaseAt(name, GroupStartIn(name))

\* App.jsx getNetworkVariant: the text of a trailing group, or ""
getNetworkVariant(name) ==
  LET
    \* name.match(/\(([^)]+)\)$/): the group, not trimmed
    NetworkAt(name1, g) ==
      IF g = 0 \/ g + 1 > Len(name1) - 1 THEN <<>> ELSE SubSeq(name1, g + 1, Len(name1) - 1)
  IN
  NetworkAt(name, GroupStartIn(name))

\* the matrix loop on the strings as given
levenshteinDistance(a, b) == LevMatrix(a, b)

\* q.split(/\s+/): a string with no leading or trailing white space; the
\* empty string splits into one empty word
SplitOnSpaces(s) == IF s = <<>> THEN <<<<>>>> ELSE SplitWords(s)

\* the score as a rational on the 0..100 scale
getMatchScore(queryText, card) ==
  LET
    \* distance <= 2 && (distance / maxLen) < 0.35
    CloseWords(distance, maxLen) == distance <= 2 /\ 100 * distance < 35 * maxLen
    \* qWords.filter(qWord => cWords.some(cWord => close(qWord, cWord))).length
    CountFuzzy(qWords, cWords) ==
      Cardinality({i \in 1..Len(qWords) : \E j \in 1..Len(cWords) :
                     CloseWords(levenshteinDistance(qWords[i], cWords[j]),
                                Max(Len(qWords[i]), Len(cWords[j])))})
    \* (wordMatches / n * 0.5 + fuzzyWordMatches / n * 0.3 + (1 - distance / maxLen) * 0.2) * 100
    Combine(wordMatches, fuzzyWordMatches, n, distance, maxLen) ==
      Rat(100 * (5 * wordMatches * maxLen + 3 * fuzzyWordMatches * maxLen
                   + 2 * (maxLen - distance) * n),
          10 * n * maxLen)
    \* getMatchScore after its guard, on the trimmed lower-case strings
    ScoreLower(q, c) ==
      IF c = q THEN Rat(100, 1)
      ELSE IF includes(c, q) THEN Rat(90, 1)
      ELSE Combine(CountMatching(SplitOnSpaces(q), SplitOnSpaces(c)),
                   CountFuzzy(SplitOnSpaces(q), SplitOnSpaces(c)),
                   Len(SplitOnSpaces(q)), levenshteinDistance(q, c), Max(Len(q), Len(c)))
  IN
  IF queryText = <<>> \/ card = <<>> THEN Rat(0, 1)
  ELSE ScoreLower(toLowerCase(trim(queryText)), toLowerCase(trim(card)))

Card(normalized) ==
  [ fullName |-> normalized,
    baseName |-> getBaseCardName(normalized),
    network |-> getNetworkVariant(normalized) ]

\* String.prototype.split(",")
SplitComma(s) ==
  LET
    \* String.prototype.split(","): the parts of s[start..], scanning from i
    RECURSIVE CommaParts(_, _, _)
    CommaParts(s1, i, start) ==
      IF i > Len(s1) THEN <<SubSeq(s1, start, Len(s1))>>
      ELSE IF s1[i] = "," THEN <<SubSeq(s1, start, i - 1)>> \o CommaParts(s1, i + 1, i + 1)
      ELSE CommaParts(s1, i + 1, start)
  IN
  CommaParts(s, 1, 1)

\* App.jsx extractCreditCards: one card per comma part of each row
RECURSIVE extractCreditCards(_)
extractCreditCards(data) ==
  LET
    \* the cards of one row's "Applicable to Credit cards" cell
    CardsOfParts(parts) == [i \in 1..Len(parts) |-> Card(normalizeCardName(parts[i]))]
    RowCards(cell) ==
      CardsOfParts(SplitComma(cell))
  IN
  IF data = <<>> THEN <<>>
  ELSE (IF Head(data).cards # <<>> THEN RowCards(Head(data).cards) ELSE <<>>)
         \o extractCreditCards(Tail(data))

\* the rows of All Cards.csv, one card per row
RECURSIVE allCardsOf(_)
allCardsOf(data) ==
  IF data = <<>> THEN <<>>
  ELSE (IF Head(data).cards # <<>> THEN <<Card(normalizeCardName(Head(data).cards))>> ELSE <<>>)
         \o allCardsOf(Tail(data))

\* Array.from(new Map(cards.map(card => [card.fullName, card])).values()):
\* one card per fullName, at the position of its first occurrence
RECURSIVE uniqueCards(_, _)
uniqueCards(cards, acc) ==
  IF cards = <<>> THEN acc
  ELSE uniqueCards(Tail(cards),
                   IF \E i \in 1..Len(acc) : acc[i].fullName = Head(cards).fullName
                     THEN acc ELSE Append(acc, Head(cards)))

\* filterOffers of fetchOffers: the rows that apply to the card
RECURSIVE filterOffers(_, _)
filterOffers(data, card) ==
  LET
    \* rowBase === card.baseName && (!rowNetwork || !card.network || rowNetwork === card.network)
    NetworkAgrees(rowNetwork, card1) ==
      rowNetwork = <<>> \/ card1.network = <<>> \/ rowNetwork = card1.network
    RowCardApplies(rowCard, card2) ==
      getBaseCardName(rowCard) = card2.baseName /\ NetworkAgrees(getNetworkVariant(rowCard), card2)
    \* rowCards.some(...)
    SomePartApplies(parts, card3) ==
      \E i \in 1..Len(parts) : RowCardApplies(normalizeCardName(trim(parts[i])), card3)
    \* the predicate of filterOffers for one row
    RowApplies(row, card4) ==
      row.cards # <<>> /\ SomePartApplies(SplitComma(row.cards), card4)
  IN
  IF data = <<>> THEN <<>>
  ELSE (IF RowApplies(Head(data), card)
          THEN <<[offer |-> Head(data).offer, coupon |-> Head(data).coupon]>> ELSE <<>>)
         \o filterOffers(Tail(data), card)

(***************************************************************************)
(* CSV contents served to CreditCardDropdown: a row holds the cell         *)
(* "Applicable to Credit cards" and the "Offer" and "Coupon code" cells    *)
(***************************************************************************)
AppSwiggyCsv ==
  << [cards |-> <<"H","D","F","C"," ","R","e","g","a","l","i","a"," ","(","V","i","s","a",")",","," ","I","C","I","C","I"," ","A","m","a","z","o","n","a","y">>, offer |-> "5% off", coupon |-> "SW5"] >>
AppZomatoCsv ==
  << [cards |-> <<"H","D","F","C"," ","R","e","g","a","l","i","a"," ","(","V","i","s","a"," ","S","i","g","n","a","t","u","r","e",")">>, offer |-> "10% off", coupon |-> "ZO10"],
     [cards |-> <<"S","B","I"," ","S","i","m","p","l","y","C","L","I","C","K">>, offer |-> "15% off", coupon |-> "ZO15"] >>
AppAllCardsCsv ==
  << [cards |-> <<"H","D","F","C"," ","R","e","g","a","l","i","a">>, offer |-> "", coupon |-> ""],
     [cards |-> <<"A","x","i","s"," ","Z","e","n">>, offer |-> "", coupon |-> ""] >>

\* the texts typed into the search box
AppQueries == { <<>>, <<"h","d","f","c">>, <<"r","e","g","a","l","i","a">>, <<"q","q">> }

(***************************************************************************)
(* CreditCardDropdown: state                                               *)
(***************************************************************************)
VARIABLES
  creditCards, allCardsList, searchTerm, appFilteredCards, selectedCard,
  appSwiggyOffers, appZomatoOffers, noOffersMessage, cardsLoaded,
  fetchData,      \* the Promise.all of fetchData: its status and which fetches resolved
  inflight,       \* the fetchOffers calls not yet settled, in call order
  appLastOp       \* the handler or completion that ran last, with its outcome

appVars ==
  << creditCards, allCardsList, searchTerm, appFilteredCards, selectedCard,
     appSwiggyOffers, appZomatoOffers, noOffersMessage, cardsLoaded,
     fetchData, inflight, appLastOp >>

\* useState(null) for selectedCard
NoCard == [fullName |-> <<"null">>, baseName |-> <<>>, network |-> <<>>]

MsgNone == ""
MsgNoOffers == "No offers found for this card."
MsgNotInDatabase == "Card not found in our database. Please try another name."
MsgFetchError == "Error fetching offers. Please try again."
MsgCardNotFound == "Card not found. Please try another name."

\* the number of fetchOffers calls that may be in flight together
MaxInFlight == 2

\* the effect "auto-detect when no cards match the search", run after a
\* render in which searchTerm, filteredCards or selectedCard changed
AutoDetect(term, filtered, card, message) ==
  IF trim(term) # <<>> /\ filtered = <<>> /\ card = NoCard THEN MsgCardNotFound ELSE message

\* fetchData: Promise.all over Swiggy.csv, Zomato.csv and fetchAllCardsList
\* (which catches its own failure and yields no cards) settles
FetchDataSettled(swiggyOk, zomatoOk, allCardsOk) ==
  LET
    \* setCreditCards(uniqueCards); setAllCardsList(allCards)
    SetCards(allCards) ==
      /\ creditCards' = uniqueCards(extractCreditCards(AppSwiggyCsv) \o extractCreditCards(AppZomatoCsv)
                                      \o allCards, <<>>)
      /\ allCardsList' = allCards
  IN
  /\ fetchData.status = "pending"
  /\ fetchData' = [status |-> "settled", Swiggy |-> swiggyOk, Zomato |-> zomatoOk,
                   AllCards |-> allCardsOk]
  /\ cardsLoaded' = TRUE
  /\ IF swiggyOk /\ zomatoOk
       THEN SetCards(IF allCardsOk THEN allCardsOf(AppAllCardsCsv) ELSE <<>>)
       ELSE UNCHANGED <<creditCards, allCardsList>>
  /\ appLastOp' = [op |-> "fetchData"]
  /\ UNCHANGED <<searchTerm, appFilteredCards, selectedCard, appSwiggyOffers, appZomatoOffers,
                 noOffersMessage, inflight>>

\* App.jsx handleSearchChange
handleSearchChange(value) ==
  LET
    \* b.score - a.score, for the sort of handleSearchChange
    CompareCardScore(a, b) == RatCompare(b.score, a.score)
    \* card.score > 0.3
    AboveThreshold(x) == RatLess(Rat(3, 10), x.score)
    WithScores(value1, cards1) ==
      [i \in 1..Len(cards1) |-> [card |-> cards1[i], score |-> getMatchScore(value1, cards1[i].fullName)]]
    \* the score copied into each suggestion is not read again
    CardsOf(top) == [i \in 1..Len(top) |-> top[i].card]
    matchingCards(value2, cards) ==
      CardsOf(Take(SortBy(CompareCardScore, Filter(AboveThreshold, WithScores(value2, cards))), 10))
    \* setFilteredCards and the auto-detect effect that follows the render
    SetFiltered(value3, filtered) ==
      /\ appFilteredCards' = filtered
      /\ noOffersMessage' = AutoDetect(value3, filtered, NoCard, MsgNone)
  IN
  /\ searchTerm' = value
  /\ selectedCard' = NoCard
  /\ appSwiggyOffers' = <<>>
  /\ appZomatoOffers' = <<>>
  /\ \E filtered \in {IF value = <<>> THEN <<>> ELSE matchingCards(value, creditCards)} :
       SetFiltered(value, filtered)
  /\ appLastOp' = [op |-> "handleSearchChange"]
  /\ UNCHANGED <<creditCards, allCardsList, cardsLoaded, fetchData, inflight>>

\* handleCardSelect, up to and including the call of fetchOffers, which
\* suspends at its await with the card and the creditCards of this render
handleCardSelect(card) ==
  /\ Len(inflight) < MaxInFlight
  /\ selectedCard' = card
  /\ searchTerm' = card.fullName
  /\ appFilteredCards' = <<>>
  /\ appSwiggyOffers' = <<>>
  /\ appZomatoOffers' = <<>>
  /\ noOffersMessage' = MsgNone
  /\ inflight' = Append(inflight, [card |-> card, creditCards |-> creditCards])
  /\ appLastOp' = [op |-> "handleCardSelect"]
  /\ UNCHANGED <<creditCards, allCardsList, cardsLoaded, fetchData>>

\* creditCards.some(c => c.fullName.toLowerCase() === card.fullName.toLowerCase())
CardInDatabase(cards, card) ==
  \E k \in 1..Len(cards) : toLowerCase(cards[k].fullName) = toLowerCase(card.fullName)

\* the Promise.all of the i-th pending fetchOffers call settles
FetchOffersSettled(i, swiggyOk, zomatoOk) ==
  LET
    \* the try block of fetchOffers after its await
    SetOffers(swiggyFiltered, zomatoFiltered, cardInDatabase) ==
      /\ appSwiggyOffers' = swiggyFiltered
      /\ appZomatoOffers' = zomatoFiltered
      /\ noOffersMessage' =
           IF swiggyFiltered = <<>> /\ zomatoFiltered = <<>>
             THEN (IF cardInDatabase THEN MsgNoOffers ELSE MsgNotInDatabase)
             ELSE MsgNone
  IN
  /\ i \in 1..Len(inflight)
  /\ IF swiggyOk /\ zomatoOk
       THEN \E swiggyFiltered \in {filterOffers(AppSwiggyCsv, inflight[i].card)},
               zomatoFiltered \in {filterOffers(AppZomatoCsv, inflight[i].card)} :
              SetOffers(swiggyFiltered, zomatoFiltered,
                        CardInDatabase(inflight[i].creditCards, inflight[i].card))
       ELSE /\ noOffersMessage' = MsgFetchError
            /\ UNCHANGED <<appSwiggyOffers, appZomatoOffers>>
  /\ appLastOp' = [op |-> "fetchOffers", card |-> inflight[i].card,
                   Swiggy |-> swiggyOk, Zomato |-> zomatoOk]
  /\ inflight' = SubSeq(inflight, 1, i - 1) \o SubSeq(inflight, i + 1, Len(inflight))
  /\ UNCHANGED <<creditCards, allCardsList, searchTerm, appFilteredCards, selectedCard,
                 cardsLoaded, fetchData>>

\* App.jsx handleKeyDown, the Enter key
handleKeyDown ==
  LET
    \* creditCards.some(card => card.fullName.toLowerCase() === searchTerm.toLowerCase().trim())
    CardExists ==
      \E k \in 1..Len(creditCards) :
        toLowerCase(creditCards[k].fullName) = trim(toLowerCase(searchTerm))
    \* the message after Enter; the auto-detect effect runs again only when
    \* selectedCard changed
    MessageAfterEnter(message) ==
      IF selectedCard # NoCard THEN AutoDetect(searchTerm, appFilteredCards, NoCard, message)
      ELSE message
    \* Enter with no suggestion on screen and a non-blank search term
    EnterWithoutSuggestions ==
      /\ appFilteredCards = <<>>
      /\ trim(searchTerm) # <<>>
      /\ noOffersMessage' = MessageAfterEnter(IF CardExists THEN MsgNoOffers ELSE MsgCardNotFound)
      /\ selectedCard' = NoCard
      /\ appSwiggyOffers' = <<>>
      /\ appZomatoOffers' = <<>>
      /\ appLastOp' = [op |-> "handleKeyDown"]
      /\ UNCHANGED <<creditCards, allCardsList, searchTerm, appFilteredCards, cardsLoaded,
                     fetchData, inflight>>
  IN
  IF appFilteredCards # <<>> THEN handleCardSelect(appFilteredCards[1])
  ELSE EnterWithoutSuggestions

\* the effect that sets showScrollButton has run
showScrollButton == appSwiggyOffers # <<>> \/ appZomatoOffers # <<>>

(***************************************************************************)
(* Specifications                                                          *)
(***************************************************************************)
\* A direct call of one of the pure helpers of part_003: its arguments and
\* what it returned; no call is made while the components run.
VARIABLES
  fnArgs,         \* the two strings the helper is called with
  fnResult        \* the helper called and its return value

fnVars == <<fnArgs, fnResult>>
FnIdle == fnArgs = <<>> /\ fnResult = [fn |-> "none", value |-> 0]

\* the useState values of part_000's CreditCardDropdown, the build it runs in,
\* and the error thrown by the last event
VARIABLE dropdown

vars == <<widgetVars, appVars, fnVars, dropdown>>

\* the component as mounted by a build of the given kinds: "const" keeps the
\* const declarations of handleCardSelect, "var" has them compiled to var
Mount_000(builds) ==
  dropdown \in
    { [ build |-> b, loaded |-> "pending",
        swiggyOffers |-> <<>>, zomatoOffers |-> <<>>, eatsureOffers |-> <<>>, allCards |-> <<>>,
        creditCards |-> <<>>, filteredCards |-> <<>>, searchTerm |-> <<>>, selectedCard |-> <<>>,
        platformOffers |-> [Eatsure |-> <<>>, Swiggy |-> <<>>, Zomato |-> <<>>],
        noOffersMessage |-> MsgNone, showNoMatchMessage |-> FALSE, typingTimeout |-> FALSE,
        thrown |-> "", lastOp |-> <<"mount">> ] : b \in builds }

\* the texts typed into the search box of AirlineOffers
Queries == { <<>>, <<"h","d","f","c"," ">>, <<"h","d","f","c"," ","r","e","g","l","i","a">>, <<"d","e","b","i","t">>, <<"z","z","z">> }

WidgetStart(allCardsFiles) ==
  /\ creditEntries = <<>> /\ debitEntries = <<>> /\ upiEntries = <<>> /\ netBankingEntries = <<>>
  /\ chipCC = <<>> /\ chipDC = <<>> /\ chipUPI = <<>> /\ chipNB = <<>>
  /\ filteredCards = <<>> /\ query = <<>> /\ selected = Null /\ noMatches = FALSE
  /\ swiggyOffers = <<>> /\ zomatoOffers = <<>>
  /\ allCardsLoad = "pending"
  /\ offerLoad = [site \in Sites |-> "pending"]
  /\ csv \in [allCards : allCardsFiles, Swiggy : {SwiggyCsv}, Zomato : {ZomatoCsv}]
  /\ lastOp = <<"mount">>


AppInit ==
  /\ creditCards = <<>> /\ allCardsList = <<>> /\ searchTerm = <<>>
  /\ appFilteredCards = <<>> /\ selectedCard = NoCard
  /\ appSwiggyOffers = <<>> /\ appZomatoOffers = <<>>
  /\ noOffersMessage = MsgNone /\ cardsLoaded = FALSE
  /\ fetchData = [status |-> "pending", Swiggy |-> FALSE, Zomato |-> FALSE, AllCards |-> FALSE]
  /\ inflight = <<>>
  /\ appLastOp = [op |-> "mount"]

Init == WidgetStart({AllCardsCsv, <<>>}) /\ AppInit /\ FnIdle /\ Mount_000({"const"})

\* AirlineOffers: the loads settle in any order, between any user events
Next ==
  \/ AllCardsLoaded /\ UNCHANGED <<appVars, fnVars, dropdown>>
  \/ AllCardsFailed /\ UNCHANGED <<appVars, fnVars, dropdown>>
  \/ \E site \in Sites : OfferFileLoaded(site) /\ UNCHANGED <<appVars, fnVars, dropdown>>
  \/ \E site \in Sites : OfferFileFailed(site) /\ UNCHANGED <<appVars, fnVars, dropdown>>
  \/ \E val \in Queries : onChangeQuery(val) /\ UNCHANGED <<appVars, fnVars, dropdown>>
  \/ \E i \in 1..Len(filteredCards) :
       DropdownVisible /\ filteredCards[i].type # "heading" /\ onPick(filteredCards[i])
         /\ UNCHANGED <<appVars, fnVars, dropdown>>
  \/ \E chip \in Chips : handleChipClick(chip[1], chip[2]) /\ UNCHANGED <<appVars, fnVars, dropdown>>

Spec == Init /\ [][Next]_vars

\* CreditCardDropdown
AppNext ==
  \/ \E s, z, a \in BOOLEAN : FetchDataSettled(s, z, a) /\ UNCHANGED <<widgetVars, fnVars, dropdown>>
  \/ \E value \in AppQueries : handleSearchChange(value) /\ UNCHANGED <<widgetVars, fnVars, dropdown>>
  \/ \E i \in 1..Len(appFilteredCards) : handleCardSelect(appFilteredCards[i]) /\ UNCHANGED <<widgetVars, fnVars, dropdown>>
  \/ \E i \in 1..Len(inflight) : \E s, z \in BOOLEAN :
       FetchOffersSettled(i, s, z) /\ UNCHANGED <<widgetVars, fnVars, dropdown>>
  \/ handleKeyDown /\ UNCHANGED <<widgetVars, fnVars, dropdown>>

\* CreditCardDropdown never touches the state of AirlineOffers, so one choice
\* of its files is enough
AppStart == Init /\ csv.allCards = <<>>

SpecApp == AppStart /\ [][AppNext]_vars

(***************************************************************************)
(* AirlineOffers once its three loads have resolved, for any offer tables  *)
(* of up to MaxRows rows in the two files together                         *)
(***************************************************************************)
MaxRows == 3

\* the state after loadAllCards and then both offer files resolved
LoadedInit ==
  LET
    \* the tables of up to MaxRows rows drawn from a pool, in any order and with
    \* repeats
    Tables(pool) == UNION { [1..n -> pool] : n \in 0..MaxRows }
    \* the entries and chips after loadAllCards, then the chip effect on the
    \* Swiggy rows alone, then the chip effect on both tables
    LoadedFrom(cat, first, maps) ==
      /\ creditEntries = cat.credit
      /\ debitEntries = cat.debit
      /\ upiEntries =
           mergeEntries(mergeEntries(cat.upi, Entries(SortedValues(first.upi), "upi")),
                        Entries(SortedValues(maps.upi), "upi"))
      /\ netBankingEntries =
           mergeEntries(mergeEntries(cat.netbanking,
                                     Entries(SortedValues(first.netbanking), "netbanking")),
                        Entries(SortedValues(maps.netbanking), "netbanking"))
      /\ chipCC = SortedValues(maps.credit)
      /\ chipDC = SortedValues(maps.debit)
      /\ chipUPI = SortedValues(maps.upi)
      /\ chipNB = SortedValues(maps.netbanking)
      /\ filteredCards = AllGroups(cat.credit, cat.debit, cat.upi, cat.netbanking)
  IN
  /\ csv \in [allCards : {AllCardsCsv}, Swiggy : Tables(SwiggyPool), Zomato : Tables(ZomatoPool)]
  /\ Len(csv.Swiggy) + Len(csv.Zomato) <= MaxRows
  /\ swiggyOffers = csv.Swiggy /\ zomatoOffers = csv.Zomato
  /\ allCardsLoad = "loaded"
  /\ offerLoad = [site \in Sites |-> "loaded"]
  /\ \E cat \in {CatalogOf(csv.allCards)}, first \in {ChipMaps(csv.Swiggy, <<>>)},
        maps \in {ChipMaps(csv.Swiggy, csv.Zomato)} : LoadedFrom(cat, first, maps)
  /\ query = <<>> /\ selected = Null /\ noMatches = FALSE
  /\ lastOp = <<"loadOffers", "Zomato", "loaded">>

MatchNext ==
  \/ \E chip \in Chips : handleChipClick(chip[1], chip[2]) /\ UNCHANGED <<appVars, fnVars, dropdown>>
  \/ onChangeQuery(<<>>) /\ UNCHANGED <<appVars, fnVars, dropdown>>

MatchInit == LoadedInit /\ AppInit /\ FnIdle /\ Mount_000({"const"})

SpecMatch == MatchInit /\ [][MatchNext]_vars

\* The search box alone: the catalog is loaded from one of two sheets and the
\* user types; the typed texts are three names of the catalog with one
\* character left out, a few more misspelt names and a text with the word
\* "select".
SearchQueries ==
  LET Names == { <<"h","d","f","c"," ","r","e","g","a","l","i","a">>, <<"h","d","f","c"," ","m","i","l","l","e","n","n","i","a">>, <<"a","x","i","s"," ","s","e","l","e","c","t">> }
      Typos(name) ==
        { SubSeq(name, 1, i - 1) \o SubSeq(name, i + 1, Len(name)) : i \in 1..Len(name) }
  IN UNION { Typos(name) : name \in Names }
       \cup { <<"h","d","f","c"," ","r","e","g","l","i","a">>, <<"h","d","f","x"," ","r","e","g","a","l","i","a">>, <<"h","d","f","c"," ","r","e","g","a","l","l","i","a">>, <<"s","b","i"," ","s","i","m","p","l","y","c","l","c","k">>,
              <<"h","d","f","c"," ","r","e","g","a","l","i","a"," ","s","e","l","e","c","t">> }

SearchInit == WidgetStart({AllCardsCsv, AllCardsNestedCsv}) /\ AppInit /\ FnIdle /\ Mount_000({"const"})

SearchNext ==
  \/ AllCardsLoaded /\ UNCHANGED <<appVars, fnVars, dropdown>>
  \/ \E val \in SearchQueries : onChangeQuery(val) /\ UNCHANGED <<appVars, fnVars, dropdown>>

SpecSearch == SearchInit /\ [][SearchNext]_vars

(***************************************************************************)
(* Properties of AirlineOffers (part_003) under Spec                       *)
(***************************************************************************)
\* The helpers toNorm, lev and scoreCandidate called directly, with every
\* pair of strings of at most MaxFnLen characters out of a letter, a capital
\* letter and a punctuation mark, and every such string paired with its lower
\* case.
MaxFnLen == 2
FnStrings == UNION { [1..n -> {"a", "B", "-"}] : n \in 0..MaxFnLen }

FnInit ==
  LET
    \* single arguments for toNorm: letters of both cases, a digit, the
    \* underscore, punctuation, a blank, a letter with a diacritic and a
    \* compatibility character (the telephone sign, NFKD "TEL")
    NormStrings ==
      UNION { [1..n -> {"a", "B", "1", "_", "-", " ", "E_ACUTE", "TEL_SIGN"}] : n \in 0..MaxFnLen }
    \* a typed text and a card name for getMatchScore
    NamePairs ==
      { <<<<"a","x"," ","z","e">>, <<"A","x"," ","B"," ","Z","e">>>>, <<<<"a","x"," ","z","n">>, <<"A","x"," ","Z","e","n">>>>, <<<<" ","Z","e","n"," ">>, <<"A","x"," ","Z","e","n">>>>, <<<<"s","b","i">>, <<"A","x"," ","Z","e","n">>>> }
  IN
  /\ WidgetStart({<<>>}) /\ AppInit /\ Mount_000({"const"})
  /\ fnArgs \in (FnStrings \X FnStrings) \cup { <<s, toLowerCase(s)>> : s \in FnStrings }
                  \cup { <<toLowerCase(s), s>> : s \in FnStrings }
                  \cup { <<s, <<>> >> : s \in NormStrings }
                  \cup NamePairs
  /\ fnResult = [fn |-> "none", value |-> 0]

\* toNorm(s) is called and returns
CallToNorm ==
  /\ fnResult' = [fn |-> "toNorm", value |-> toNorm(fnArgs[1])]
  /\ UNCHANGED <<widgetVars, appVars, fnArgs, dropdown>>

\* lev(a, b) is called and returns
CallLev ==
  /\ fnResult' = [fn |-> "lev", value |-> lev(fnArgs[1], fnArgs[2])]
  /\ UNCHANGED <<widgetVars, appVars, fnArgs, dropdown>>

\* scoreCandidate(q, cand) is called and returns
CallScoreCandidate ==
  /\ fnResult' = [fn |-> "scoreCandidate", value |-> scoreCandidate(fnArgs[1], fnArgs[2])]
  /\ UNCHANGED <<widgetVars, appVars, fnArgs, dropdown>>

\* App.jsx getMatchScore(query, card) is called and returns
CallGetMatchScore ==
  /\ fnResult' = [fn |-> "getMatchScore", value |-> getMatchScore(fnArgs[1], fnArgs[2])]
  /\ UNCHANGED <<widgetVars, appVars, fnArgs, dropdown>>

FnNext == CallToNorm \/ CallLev \/ CallScoreCandidate \/ CallGetMatchScore

SpecFn == FnInit /\ [][FnNext]_vars

(***************************************************************************)
(* CreditCardDropdown of part_000: helpers, handlers and specification     *)
(***************************************************************************)

\* part_000 normalizeCardName: the steps of App.jsx's, then
\* .replace(/J\s*&\s*K/g, 'J&K')
normalizeCardName_000(name) ==
  LET
    \* the first position from i on that holds no white space
    AfterSpaces(s, i) ==
      CHOOSE j \in i..(Len(s) + 1) :
        /\ \A n \in i..(j - 1) : IsSpaceChar(s[n])
        /\ j = Len(s) + 1 \/ ~IsSpaceChar(s[j])
    \* the position of the K that ends a match of /J\s*&\s*K/ at the head of s, or 0
    AmpersandThenK(s2, a) ==
      IF a > Len(s2) \/ s2[a] # "&" THEN 0
      ELSE IF AfterSpaces(s2, a + 1) > Len(s2) \/ s2[AfterSpaces(s2, a + 1)] # "K" THEN 0
      ELSE AfterSpaces(s2, a + 1)
    MatchEnd(s3) == IF Head(s3) # "J" THEN 0 ELSE AmpersandThenK(s3, AfterSpaces(s3, 2))
    RECURSIVE JoinJK(_)
    JoinJK(s4) ==
      IF s4 = <<>> THEN <<>>
      ELSE IF MatchEnd(s4) > 0 THEN <<"J","&","K">> \o JoinJK(SubSeq(s4, MatchEnd(s4) + 1, Len(s4)))
      ELSE <<Head(s4)>> \o JoinJK(Tail(s4))
  IN
  JoinJK(normalizeCardName(name))

\* part_000 getMatchScore: 100, 90, or the blend
\* (matchingWords / qWords.length) * 0.7 + similarity * 0.3, as a rational
getMatchScore_000(queryText, card) ==
  LET
    \* String.prototype.split(/\s+/) of a string that is not trimmed: white
    \* space at either end leaves an empty word there
    SplitSpaces(s) ==
      IF s = <<>> THEN <<<<>>>>
      ELSE (IF IsSpaceChar(s[1]) THEN <<<<>>>> ELSE <<>>) \o SplitWords(s)
             \o (IF IsSpaceChar(s[Len(s)]) THEN <<<<>>>> ELSE <<>>)
    \* part_000 levenshteinDistance: 100 when either string is empty
    Distance(a, b) == IF a = <<>> \/ b = <<>> THEN 100 ELSE LevMatrix(a, b)
    Blend(matchingWords, n, distance, maxLen) ==
      Rat(7 * matchingWords * maxLen + 3 * (maxLen - distance) * n, 10 * n * maxLen)
    Score(q, c) ==
      IF c = q THEN Rat(100, 1)
      ELSE IF includes(c, q) THEN Rat(90, 1)
      ELSE Blend(CountMatching(SplitSpaces(q), SplitSpaces(c)), Len(SplitSpaces(q)),
                 Distance(q, c), Max(Len(q), Len(c)))
  IN
  IF queryText = <<>> \/ card = <<>> THEN Rat(0, 1)
  ELSE Score(toLowerCase(queryText), toLowerCase(card))


\* fetchData: the Promise.all over the four files settles
FetchDataSettled_000(ok) ==
  LET
    EatsureCsv == << [cards |-> <<"A","x","i","s"," ","Z","e","n"," ","(","R","u","p","a","y",")",",","H","D","F","C"," ","R","e","g","a","l","i","a">>, offer |-> "20% off", coupon |-> "EAT20"] >>
    NameOf(cell) == getBaseCardName(normalizeCardName_000(trim(cell)))
    NamesOfParts(parts) == [i \in 1..Len(parts) |-> NameOf(parts[i])]
    RECURSIVE SplitRows(_)
    SplitRows(data) ==
      IF data = <<>> THEN <<>>
      ELSE (IF Head(data).cards # <<>> THEN NamesOfParts(SplitComma(Head(data).cards)) ELSE <<>>)
             \o SplitRows(Tail(data))
    RECURSIVE WholeRows(_)
    WholeRows(data1) ==
      IF data1 = <<>> THEN <<>>
      ELSE (IF Head(data1).cards # <<>> THEN <<NameOf(Head(data1).cards)>> ELSE <<>>)
             \o WholeRows(Tail(data1))
    \* new Set(): each name once, in the order of its first insertion
    RECURSIVE SetOf(_, _)
    SetOf(names, acc) ==
      IF names = <<>> THEN acc
      ELSE SetOf(Tail(names), IF \E i \in 1..Len(acc) : acc[i] = Head(names) THEN acc
                                ELSE Append(acc, Head(names)))
    CompareLower(a, b) == localeCompare(toLowerCase(a), toLowerCase(b))
  IN
  /\ dropdown.loaded = "pending"
  /\ dropdown' =
       IF ok
         THEN [dropdown EXCEPT !.loaded = "settled",
                 !.swiggyOffers = AppSwiggyCsv, !.zomatoOffers = AppZomatoCsv,
                 !.eatsureOffers = EatsureCsv, !.allCards = AppAllCardsCsv,
                 !.creditCards = SortBy(CompareLower,
                    SetOf(SplitRows(AppSwiggyCsv) \o SplitRows(AppZomatoCsv) \o SplitRows(EatsureCsv)
                            \o WholeRows(AppAllCardsCsv), <<>>)),
                 !.thrown = "", !.lastOp = <<"fetchData", ok>>]
         ELSE [dropdown EXCEPT !.loaded = "failed", !.thrown = "", !.lastOp = <<"fetchData", ok>>]
  /\ UNCHANGED <<widgetVars, appVars, fnVars>>

\* part_000 handleSearchChange(value)
handleSearchChange_000(value) ==
  LET
    WithScores(cards) == [i \in 1..Len(cards) |-> [card |-> cards[i], score |-> getMatchScore_000(value, cards[i])]]
    \* item.score > 30
    AboveThreshold(item) == RatLess(Rat(30, 1), item.score)
    \* b.score - a.score
    CompareScore(a, b) == RatCompare(b.score, a.score)
    CardsOf(items) == [i \in 1..Len(items) |-> items[i].card]
    results == Take(SortBy(CompareScore, Filter(AboveThreshold, WithScores(dropdown.creditCards))), 10)
    Cleared ==
      [dropdown EXCEPT !.searchTerm = value, !.selectedCard = <<>>,
         !.platformOffers = [Eatsure |-> <<>>, Swiggy |-> <<>>, Zomato |-> <<>>],
         !.noOffersMessage = MsgNone, !.showNoMatchMessage = FALSE, !.typingTimeout = FALSE,
         !.thrown = "", !.lastOp = <<"handleSearchChange", value>>]
  IN
  /\ dropdown' =
       IF value = <<>> THEN [Cleared EXCEPT !.filteredCards = <<>>]
       ELSE [Cleared EXCEPT !.filteredCards = CardsOf(results),
                            !.typingTimeout = (results = <<>> /\ Len(value) > 2)]
  /\ UNCHANGED <<widgetVars, appVars, fnVars>>

\* the timeout set by handleSearchChange fires after one second
NoMatchTimeout_000 ==
  /\ dropdown.typingTimeout
  /\ dropdown' = [dropdown EXCEPT !.showNoMatchMessage = TRUE, !.typingTimeout = FALSE,
                                  !.thrown = "", !.lastOp = <<"timeout">>]
  /\ UNCHANGED <<widgetVars, appVars, fnVars>>

\* part_000 handleCardSelect(card) on the state d of the render: the state
\* after the event, with the error it threw
handleCardSelect_000(d, card) ==
  LET
    \* setSelectedCard, setSearchTerm, setFilteredCards, setShowNoMatchMessage, clearTimeout
    Picked ==
      [d EXCEPT !.selectedCard = card, !.searchTerm = card, !.filteredCards = <<>>,
                !.showNoMatchMessage = FALSE, !.typingTimeout = FALSE,
                !.lastOp = <<"handleCardSelect", card>>]
    BaseNames(parts) == [i \in 1..Len(parts) |-> getBaseCardName(normalizeCardName_000(trim(parts[i])))]
    RowMatches(row) ==
      /\ row.cards # <<>>
      /\ \E i \in 1..Len(BaseNames(SplitComma(row.cards))) :
           toLowerCase(BaseNames(SplitComma(row.cards))[i]) = toLowerCase(d.selectedCard)
    OfferOf(row1) == [coupon |-> row1.coupon, offer |-> row1.offer,
                      variant |-> getNetworkVariant(SplitComma(row1.cards)[1])]
    OffersOf(rows) == [i \in 1..Len(rows) |-> OfferOf(rows[i])]
    \* getOffersForSelectedCard(offers, platform): selectedCard is that of
    \* the render; offers.filter throws when offers is undefined
    getOffersForSelectedCard(offers) ==
      IF d.selectedCard = <<>> THEN [threw |-> FALSE, value |-> <<>>]
      ELSE IF offers = "undefined" THEN [threw |-> TRUE, value |-> <<>>]
      ELSE [threw |-> FALSE, value |-> OffersOf(Filter(RowMatches, offers))]
    \* const eatsureOffers = getOffersForSelectedCard(eatsureOffers, "Eatsure"):
    \* the argument is the local of the declaration, undefined once compiled to var
    eatsure == getOffersForSelectedCard("undefined")
    swiggy == getOffersForSelectedCard("undefined")
    zomato == getOffersForSelectedCard("undefined")
    cardExists ==
      \E i \in 1..Len(d.allCards) :
        /\ d.allCards[i].cards # <<>>
        /\ getBaseCardName(normalizeCardName_000(trim(d.allCards[i].cards))) = card
  IN
  IF d.build = "const" THEN [Picked EXCEPT !.thrown = "ReferenceError"]
  ELSE IF eatsure.threw \/ swiggy.threw \/ zomato.threw THEN [Picked EXCEPT !.thrown = "TypeError"]
  ELSE [Picked EXCEPT
          !.platformOffers = [Eatsure |-> eatsure.value, Swiggy |-> swiggy.value, Zomato |-> zomato.value],
          !.noOffersMessage =
            IF cardExists /\ eatsure.value = <<>> /\ swiggy.value = <<>> /\ zomato.value = <<>>
              THEN MsgNoOffers ELSE MsgNone,
          !.thrown = ""]

\* part_000 handleKeyDown with e.key === 'Enter'
handleKeyDown_000 ==
  LET
    Entered ==
      [dropdown EXCEPT !.noOffersMessage = MsgNone,
         !.platformOffers = [Eatsure |-> <<>>, Swiggy |-> <<>>, Zomato |-> <<>>],
         !.showNoMatchMessage = FALSE, !.thrown = "", !.lastOp = <<"handleKeyDown">>]
    normalizedSearch == getBaseCardName(normalizeCardName_000(trim(dropdown.searchTerm)))
    exists ==
      \E i \in 1..Len(dropdown.creditCards) :
        toLowerCase(dropdown.creditCards[i]) = toLowerCase(normalizedSearch)
    \* handleCardSelect called from the handler: lastOp stays that of the key
    Select(card) == [handleCardSelect_000(Entered, card) EXCEPT !.lastOp = <<"handleKeyDown">>]
  IN
  /\ dropdown' =
       IF dropdown.filteredCards # <<>> THEN Select(dropdown.filteredCards[1])
       ELSE IF trim(dropdown.searchTerm) # <<>>
         THEN (IF exists THEN Select(normalizedSearch)
               ELSE [Entered EXCEPT !.noOffersMessage = MsgNotInDatabase])
       ELSE Entered
  /\ UNCHANGED <<widgetVars, appVars, fnVars>>

\* part_000's search box: the files load or fail, the user types, presses
\* Enter and picks suggestions
Init_000 == WidgetStart({<<>>}) /\ AppInit /\ FnIdle /\ Mount_000({"const", "var"})

Next_000 ==
  \/ \E ok \in BOOLEAN : FetchDataSettled_000(ok)
  \/ \E value \in { <<>>, <<"h","d","f","c">>, <<"h","d","f","c"," ","r","e","g","l","i","a">>, <<"A","x","i","s"," ","Z","e","n">>, <<"q","q","q">> } : handleSearchChange_000(value)
  \/ NoMatchTimeout_000
  \/ \E i \in 1..Len(dropdown.filteredCards) :
       /\ dropdown' = handleCardSelect_000(dropdown, dropdown.filteredCards[i])
       /\ UNCHANGED <<widgetVars, appVars, fnVars>>
  \/ handleKeyDown_000

Spec_000 == Init_000 /\ [][Next_000]_vars

\* C1: every change of the query text clears the selection: in the state
\* right after onChangeQuery, selected is null, also when the new text is
\* non-empty and produces suggestions.
C1_QueryChangeClearsSelection == lastOp[1] = "onChangeQuery" => selected = Null

\* C3: when the fetch of one provider's file failed and the other's resolved,
\* the rows of the file that resolved are in its offer state, and its offers
\* that match the selected instrument are on screen.
C3_FailedFileDoesNotBlockOther ==
  /\ (offerLoad["Swiggy"] = "loaded" /\ offerLoad["Zomato"] = "failed") =>
       /\ swiggyOffers = csv.Swiggy
       /\ selected # Null =>
            LET matched == MatchRows(csv.Swiggy, selected.type, "Swiggy", selected.baseNorm)
            IN /\ dSwiggy = dedupWrappers(matched, {})
               /\ matched # <<>> => OffersSectionShown
  /\ (offerLoad["Zomato"] = "loaded" /\ offerLoad["Swiggy"] = "failed") =>
       /\ zomatoOffers = csv.Zomato
       /\ selected # Null =>
            LET matched == MatchRows(csv.Zomato, selected.type, "Zomato", selected.baseNorm)
            IN /\ dZomato = dedupWrappers(matched, {})
               /\ matched # <<>> => OffersSectionShown

\* C3 case: Swiggy.csv failed, Zomato.csv resolved, an instrument is selected
\* and Zomato offers for it are on screen
C3_ZomatoShownAfterSwiggyFailed ==
  /\ offerLoad["Swiggy"] = "failed" /\ offerLoad["Zomato"] = "loaded"
  /\ selected # Null
  /\ dZomato # <<>>
  /\ OffersSectionShown

(***************************************************************************)
(* Properties of CreditCardDropdown (App.jsx) under SpecApp                *)
(***************************************************************************)
\* C2: once no fetchOffers call is in flight, the offer lists are empty when
\* no card is selected, and after a fetch that succeeded the offer lists and
\* the message are the ones computed for the card now selected.
C2_StaleResponsesHarmless ==
  inflight = <<>> =>
    /\ selectedCard = NoCard => appSwiggyOffers = <<>> /\ appZomatoOffers = <<>>
    /\ (selectedCard # NoCard /\ appLastOp.op = "fetchOffers"
          /\ appLastOp.Swiggy /\ appLastOp.Zomato) =>
         /\ appSwiggyOffers = filterOffers(AppSwiggyCsv, selectedCard)
         /\ appZomatoOffers = filterOffers(AppZomatoCsv, selectedCard)
         /\ noOffersMessage =
              IF appSwiggyOffers = <<>> /\ appZomatoOffers = <<>>
                THEN (IF CardInDatabase(creditCards, selectedCard)
                        THEN MsgNoOffers ELSE MsgNotInDatabase)
                ELSE MsgNone

\* C4: a file that fails to load counts as an empty row set: when exactly one
\* of the files of fetchData failed, the catalog is built from the others, and
\* when exactly one of the files of fetchOffers failed, the matching offers of
\* the other are shown.
C4_FailedSourceCountsAsEmpty ==
  /\ (fetchData.status = "settled"
        /\ Cardinality({f \in {"Swiggy", "Zomato", "AllCards"} : ~fetchData[f]}) = 1) =>
       creditCards =
         uniqueCards((IF fetchData.Swiggy THEN extractCreditCards(AppSwiggyCsv) ELSE <<>>)
                       \o (IF fetchData.Zomato THEN extractCreditCards(AppZomatoCsv) ELSE <<>>)
                       \o (IF fetchData.AllCards THEN allCardsOf(AppAllCardsCsv) ELSE <<>>),
                     <<>>)
  /\ (appLastOp.op = "fetchOffers" /\ appLastOp.Swiggy # appLastOp.Zomato) =>
       /\ appSwiggyOffers =
            IF appLastOp.Swiggy THEN filterOffers(AppSwiggyCsv, appLastOp.card) ELSE <<>>
       /\ appZomatoOffers =
            IF appLastOp.Zomato THEN filterOffers(AppZomatoCsv, appLastOp.card) ELSE <<>>

\* C10: right after a fetchOffers call for the selected card succeeded, each
\* provider's list holds one offer per row of its file that lists the card's
\* base name, whatever variant the row gives it.
C10_OtherVariantRowsReturned ==
  (appLastOp.op = "fetchOffers" /\ appLastOp.Swiggy /\ appLastOp.Zomato) =>
    /\ Len(appSwiggyOffers) =
         Cardinality({i \in 1..Len(AppSwiggyCsv) :
           \E k \in 1..Len(SplitComma(AppSwiggyCsv[i].cards)) :
             getBaseCardName(normalizeCardName(trim(SplitComma(AppSwiggyCsv[i].cards)[k])))
               = appLastOp.card.baseName})
    /\ Len(appZomatoOffers) =
         Cardinality({i \in 1..Len(AppZomatoCsv) :
           \E k \in 1..Len(SplitComma(AppZomatoCsv[i].cards)) :
             getBaseCardName(normalizeCardName(trim(SplitComma(AppZomatoCsv[i].cards)[k])))
               = appLastOp.card.baseName})

(***************************************************************************)
(* Properties of matching and dedup (part_003) under SpecMatch             *)
(***************************************************************************)
\* C5: dSwiggy followed by dZomato holds every fingerprint of a matched offer
\* exactly once: no two displayed offers share a fingerprint, every matched
\* offer's fingerprint is displayed, and the offer displayed for a fingerprint
\* is the first with it among the Swiggy matches and then the Zomato matches.
C5_FirstOccurrencePerFingerprint ==
  selected # Null =>
    LET all == wSwiggy \o wZomato
        shown == dSwiggy \o dZomato
    IN /\ \A i, j \in 1..Len(shown) :
            i # j => KeyOf[shown[i].offer] # KeyOf[shown[j].offer]
       /\ \A i \in 1..Len(all) : \E j \in 1..Len(shown) :
            KeyOf[shown[j].offer] = KeyOf[all[i].offer]
       /\ \A j \in 1..Len(shown) : \E i \in 1..Len(all) :
            /\ all[i] = shown[j]
            /\ \A k \in 1..(i - 1) : KeyOf[all[k].offer] # KeyOf[all[i].offer]
       /\ \A j \in 1..Len(dSwiggy) : dSwiggy[j].site = "Swiggy"
       /\ \A j \in 1..Len(dZomato) : dZomato[j].site = "Zomato"

\* C5 case: a matched Zomato offer is dropped because a displayed Swiggy
\* offer has its fingerprint
C5_CrossProviderDuplicateDropped ==
  /\ selected # Null
  /\ dSwiggy # <<>>
  /\ \E j \in 1..Len(wZomato) : \E i \in 1..Len(dSwiggy) :
       /\ KeyOf[wZomato[j].offer] = KeyOf[dSwiggy[i].offer]
       /\ \A k \in 1..Len(dZomato) : KeyOf[dZomato[k].offer] # KeyOf[wZomato[j].offer]

\* C6 as stated: a matched Swiggy row and a matched Zomato row with the same
\* title, description and link but different coupon codes collapse to one
\* displayed offer, the Swiggy one.
C6_SameTitleDescLinkCollapses ==
  selected # Null =>
    \A i \in 1..Len(wSwiggy) : \A j \in 1..Len(wZomato) :
      (/\ \A p \in {1, 2, 4} : KeyOf[wSwiggy[i].offer][p] = KeyOf[wZomato[j].offer][p]
       /\ Cell(wSwiggy[i].offer, <<"C","o","u","p","o","n"," ","C","o","d","e">>) # Cell(wZomato[j].offer, <<"C","o","u","p","o","n"," ","C","o","d","e">>))
      => /\ Cardinality({k \in 1..Len(dSwiggy) :
                           \A p \in {1, 2, 4} :
                             KeyOf[dSwiggy[k].offer][p] = KeyOf[wSwiggy[i].offer][p]}) = 1
         /\ \A k \in 1..Len(dZomato) :
              \E p \in {1, 2, 4} : KeyOf[dZomato[k].offer][p] # KeyOf[wZomato[j].offer][p]

\* C6 amended: a matched Swiggy row and a matched Zomato row with the same
\* title, description, image and link but different coupon codes collapse to
\* one displayed offer, the Swiggy one: the coupon code is no part of the
\* fingerprint.
C6_SameTitleDescImageLinkCollapses ==
  selected # Null =>
    \A i \in 1..Len(wSwiggy) : \A j \in 1..Len(wZomato) :
      (/\ \A p \in 1..4 : KeyOf[wSwiggy[i].offer][p] = KeyOf[wZomato[j].offer][p]
       /\ Cell(wSwiggy[i].offer, <<"C","o","u","p","o","n"," ","C","o","d","e">>) # Cell(wZomato[j].offer, <<"C","o","u","p","o","n"," ","C","o","d","e">>))
      => /\ Cardinality({k \in 1..Len(dSwiggy) :
                           \A p \in 1..4 :
                             KeyOf[dSwiggy[k].offer][p] = KeyOf[wSwiggy[i].offer][p]}) = 1
         /\ \A k \in 1..Len(dZomato) :
              \E p \in 1..4 : KeyOf[dZomato[k].offer][p] # KeyOf[wZomato[j].offer][p]

\* C6 case: a matched Swiggy row and a matched Zomato row agree on title,
\* description, image and link and differ in the coupon code
C6_SameOfferTwoCoupons ==
  /\ selected # Null
  /\ \E i \in 1..Len(wSwiggy) : \E j \in 1..Len(wZomato) :
       /\ \A p \in 1..4 : KeyOf[wSwiggy[i].offer][p] = KeyOf[wZomato[j].offer][p]
       /\ Cell(wSwiggy[i].offer, <<"C","o","u","p","o","n"," ","C","o","d","e">>) # Cell(wZomato[j].offer, <<"C","o","u","p","o","n"," ","C","o","d","e">>)
       /\ Len(dSwiggy) + Len(dZomato) < Len(wSwiggy) + Len(wZomato)

\* C7: for a credit selection, matchesFor returns no row whose type hint says
\* debit and that has no value under a credit-cards header, that is, no row
\* matched through a mixed cards column alone.
C7_DebitHintedMixedRowNotCredit ==
  (selected # Null /\ selected.type = "credit") =>
    \A i \in 1..Len(wSwiggy \o wZomato) :
      ~(/\ getRowTypeHint((wSwiggy \o wZomato)[i].offer) = "debit"
        /\ \A h \in 1..Len(Headers) :
             headerLooksCredit(Headers[h]) => ~NonBlank((wSwiggy \o wZomato)[i].offer[h]))

\* C8: a row is returned for the selection whenever one of the tokens of its
\* cell for the selected type has the selection's base, with or without a
\* variant suffix.
C8_VariantNeverExcludes ==
  selected # Null =>
    /\ \A r \in 1..Len(swiggyOffers) :
         (\E t \in 1..Len(TokenListOf[swiggyOffers[r], selected.type]) :
            BaseNormOf[TokenListOf[swiggyOffers[r], selected.type][t]]
              = selected.baseNorm)
         => \E w \in 1..Len(wSwiggy) : wSwiggy[w].offer = swiggyOffers[r]
    /\ \A r \in 1..Len(zomatoOffers) :
         (\E t \in 1..Len(TokenListOf[zomatoOffers[r], selected.type]) :
            BaseNormOf[TokenListOf[zomatoOffers[r], selected.type][t]]
              = selected.baseNorm)
         => \E w \in 1..Len(wZomato) : wZomato[w].offer = zomatoOffers[r]

\* C8 case: a row is returned whose matching token carries a variant, and
\* the note for it is shown
C8_RowWithVariantReturned ==
  /\ selected # Null
  /\ \E w \in 1..Len(wSwiggy \o wZomato) :
       /\ (wSwiggy \o wZomato)[w].variantText # <<>>
       /\ showVariantNote((wSwiggy \o wZomato)[w])

\* C9: the variantText of a returned row is the first non-empty variant among
\* the row's tokens that have the selection's base, and is empty only when
\* none of those tokens carries a variant.
C9_FirstNonEmptyVariant ==
  selected # Null =>
    \A w \in 1..Len(wSwiggy \o wZomato) :
      LET list == TokenListOf[(wSwiggy \o wZomato)[w].offer, selected.type]
          withVariant ==
            {t \in 1..Len(list) :
               /\ BaseNormOf[list[t]] = selected.baseNorm
               /\ getVariant(list[t]) # <<>>}
      IN (wSwiggy \o wZomato)[w].variantText =
           IF withVariant = {} THEN <<>> ELSE getVariant(list[Minimum(withVariant)])

\* C11: each of the four catalog lists holds at most one entry per baseNorm,
\* also when a token of the sheet has more than one trailing parenthesised
\* group.
C11_OneEntryPerBaseNorm ==
  \A list \in {creditEntries, debitEntries, upiEntries, netBankingEntries} :
    \A i, j \in 1..Len(list) : list[i].baseNorm = list[j].baseNorm => i = j

\* C12: after Enter was pressed with a non-blank text and no suggestion on
\* screen, the card of the catalog with the best getMatchScore above the
\* threshold 0.3 is selected, and the no-match message is shown only when no
\* card of the catalog scores above the threshold.
C12_EnterResolvesTypedText ==
  appLastOp.op = "handleKeyDown" =>
    LET Above == { k \in 1..Len(creditCards) :
                     RatLess(Rat(3, 10), getMatchScore(searchTerm, creditCards[k].fullName)) }
    IN IF Above = {}
         THEN selectedCard = NoCard
         ELSE /\ selectedCard # NoCard
              /\ \E k \in Above :
                   /\ selectedCard = creditCards[k]
                   /\ \A j \in Above :
                        ~RatLess(getMatchScore(searchTerm, creditCards[k].fullName),
                                 getMatchScore(searchTerm, creditCards[j].fullName))
              /\ noOffersMessage # MsgCardNotFound

\* C13: the message "Card not found. Please try another name." is on screen
\* only if no card of the loaded catalog scores above the threshold 0.3 for
\* the current search text.
C13_CardNotFoundOnlyWithoutMatch ==
  noOffersMessage = MsgCardNotFound =>
    \A k \in 1..Len(creditCards) :
      ~RatLess(Rat(3, 10), getMatchScore(searchTerm, creditCards[k].fullName))

\* C14: "No offer available for this card" is shown only when an instrument
\* is selected, no offer row matches it and no load of an offer file is
\* still outstanding.
C14_NoOfferOnlyAfterLoadsSettled ==
  NoOfferMessageShown =>
    /\ selected # Null
    /\ ~hasAny
    /\ \A site \in Sites : offerLoad[site] # "pending"

\* C15: at most one of the offers section, "No offer available for this
\* card" and "No matching cards found" is shown, and noMatches implies that
\* nothing is selected.
C15_ResultIndicatorExclusive ==
  /\ ~(OffersSectionShown /\ NoOfferMessageShown)
  /\ ~(OffersSectionShown /\ NoMatchMessageShown)
  /\ ~(NoOfferMessageShown /\ NoMatchMessageShown)
  /\ noMatches => selected = Null

\* C15 case: "No matching cards found" is shown alone, with nothing selected,
\* after a text without any suggestion was typed while chips are on screen
C15_NoMatchShownAlone ==
  /\ lastOp = <<"onChangeQuery">>
  /\ NoMatchMessageShown /\ noMatches /\ selected = Null
  /\ chipNB # <<>> /\ swiggyOffers # <<>>

\* C16: scoreCandidate(q, c) returns 100 whenever q is not the empty string
\* and c equals q up to letter case.
C16_EqualUpToCaseScores100 ==
  (/\ fnResult.fn = "scoreCandidate"
   /\ fnArgs[1] # <<>>
   /\ toLowerCase(fnArgs[1]) = toLowerCase(fnArgs[2]))
    => fnResult.value = Rat(100, 1)

\* C17: the score scoreCandidate returns for a pair whose normalized forms
\* differ is strictly lower than the score of every pair whose normalized
\* forms are identical.
C17_IdenticalStrictlyHighest ==
  (fnResult.fn = "scoreCandidate" /\ toNorm(fnArgs[1]) # toNorm(fnArgs[2]))
    => \A q \in FnStrings, c \in FnStrings :
         toNorm(q) = toNorm(c) => RatLess(fnResult.value, scoreCandidate(q, c))

\* C20: lev(a, b) is the Levenshtein distance (insertion, deletion and
\* substitution cost 1 each) of toNorm(a) and toNorm(b); it is 0 for a = b,
\* the same in both directions, the length of toNorm(b) when a is empty, and
\* obeys the triangle inequality.
C20_LevIsLevenshteinOfNormalized ==
  LET RECURSIVE Distance(_, _)
      Distance(x, y) ==
        IF x = <<>> THEN Len(y)
        ELSE IF y = <<>> THEN Len(x)
        ELSE Min(Min(Distance(Tail(x), y) + 1, Distance(x, Tail(y)) + 1),
                 Distance(Tail(x), Tail(y)) + (IF Head(x) = Head(y) THEN 0 ELSE 1))
      a == fnArgs[1]
      b == fnArgs[2]
  IN fnResult.fn = "lev" =>
       /\ fnResult.value = Distance(toNorm(a), toNorm(b))
       /\ a = b => fnResult.value = 0
       /\ fnResult.value = lev(b, a)
       /\ a = <<>> => fnResult.value = Len(toNorm(b))
       /\ \A c \in FnStrings : lev(a, c) <= fnResult.value + lev(b, c)

\* C20 case: lev was called with two strings that normalization changes and
\* that are one deletion apart once normalized
C20_LevOfStringsChangedByNorm ==
  /\ fnArgs = << <<"a","B">>, <<"-","a">> >>
  /\ fnResult.fn = "lev" /\ fnResult.value = 1

C19_SuggestionsSortedByScore ==
  LET OfType(type) ==
        LET HasType(x) == x.type = type
        IN  SelectSeq(filteredCards, HasType)
      Score(entry) == rankScore(trim(query), entry.display)
      InOrder(group) ==
        \A i, j \in 1..Len(group) :
          i < j => /\ ~RatLess(Score(group[i]), Score(group[j]))
                   /\ Score(group[i]) = Score(group[j])
                        => localeCompare(group[i].display, group[j].display) <= 0
  IN lastOp = <<"onChangeQuery">> =>
       \A type \in {"credit", "debit", "upi", "netbanking"} :
         InOrder(OfType(type)) /\ Len(OfType(type)) <= MAX_SUGGESTIONS

\* C21: toNorm is idempotent: what toNorm returned is left unchanged by
\* toNorm.
C21_ToNormIdempotent ==
  fnResult.fn = "toNorm" => toNorm(fnResult.value) = fnResult.value

\* C22: once allCards.csv and both offer files have loaded, in whatever
\* order, upiEntries and netBankingEntries hold exactly the baseNorms of the
\* entries read from allCards.csv and of the UPI and net-banking entries
\* harvested from the offer rows.
C22_CatalogIndependentOfLoadOrder ==
  LET BaseNorms(entries) == { entries[i].baseNorm : i \in 1..Len(entries) }
      FromOffers(type) == Entries(SortedValues(ChipMaps(csv.Swiggy, csv.Zomato)[type]), type)
  IN (allCardsLoad = "loaded" /\ \A site \in Sites : offerLoad[site] = "loaded") =>
       /\ BaseNorms(upiEntries)
            = BaseNorms(CatalogOf(csv.allCards).upi) \cup BaseNorms(FromOffers("upi"))
       /\ BaseNorms(netBankingEntries)
            = BaseNorms(CatalogOf(csv.allCards).netbanking) \cup BaseNorms(FromOffers("netbanking"))

\* C23: the tokens of the "Eligible Cards" cell of an offer row with a debit
\* type hint are among the debit chips and, unless some row lists the same
\* card in its "Eligible Credit Cards" cell, not among the credit chips; with
\* a credit hint the same with debit and credit exchanged.
C23_MixedColumnFollowsTypeHint ==
  LET Rows == swiggyOffers \o zomatoOffers
      NormsOf(cell) ==
        { toNorm(brandCanonicalize(getBase(splitList(cell)[t]))) : t \in 1..Len(splitList(cell)) }
          \ { <<>> }
      ChipNorms(chips) == { toNorm(chips[i]) : i \in 1..Len(chips) }
      \* the cards some row lists in column col (1: credit, 2: debit)
      Listed(col) == UNION { NormsOf(Rows[r][col]) : r \in 1..Len(Rows) }
  IN \A r \in 1..Len(Rows) :
       /\ getRowTypeHint(Rows[r]) = "debit" =>
            /\ NormsOf(Rows[r][3]) \subseteq ChipNorms(chipDC)
            /\ (NormsOf(Rows[r][3]) \ Listed(1)) \cap ChipNorms(chipCC) = {}
       /\ getRowTypeHint(Rows[r]) = "credit" =>
            /\ NormsOf(Rows[r][3]) \subseteq ChipNorms(chipCC)
            /\ (NormsOf(Rows[r][3]) \ Listed(2)) \cap ChipNorms(chipDC) = {}

\* C24: part_000's threshold is on the scale of the score it filters: right
\* after handleSearchChange with a non-empty text, every catalog entry that
\* does not contain the text and whose blended getMatchScore is above 30% of
\* the blend's 0..1 scale is among the suggestions, a one-character typo of
\* an entry included.
C24_ThresholdOnScoreScale ==
  LET
    cards == dropdown.creditCards
    Blended(c) == ~includes(toLowerCase(c), toLowerCase(dropdown.searchTerm))
    AboveThirtyPercent(c1) == RatLess(Rat(3, 10), getMatchScore_000(dropdown.searchTerm, c1))
  IN
  (dropdown.lastOp[1] = "handleSearchChange" /\ dropdown.searchTerm # <<>>) =>
    \A i \in 1..Len(cards) :
      (Blended(cards[i]) /\ AboveThirtyPercent(cards[i])) => cards[i] \in Range(dropdown.filteredCards)

\* C25: in part_000, right after a suggestion is picked with
\* handleCardSelect(card), no error was thrown, selectedCard is card and
\* platformOffers holds for each provider exactly the rows whose
\* applicable-cards list contains the base name of card.
C25_SelectionOffersForPickedCard ==
  LET
    card == dropdown.lastOp[2]
    BaseNames(parts) == [i \in 1..Len(parts) |-> getBaseCardName(normalizeCardName_000(trim(parts[i])))]
    Applies(row) ==
      /\ row.cards # <<>>
      /\ \E i \in 1..Len(BaseNames(SplitComma(row.cards))) :
           toLowerCase(BaseNames(SplitComma(row.cards))[i]) = toLowerCase(getBaseCardName(card))
    Coupons(rows) == [i \in 1..Len(rows) |-> rows[i].coupon]
    Expected(rows1) == Coupons(Filter(Applies, rows1))
  IN
  dropdown.lastOp[1] = "handleCardSelect" =>
    /\ dropdown.thrown = ""
    /\ dropdown.selectedCard = card
    /\ Coupons(dropdown.platformOffers.Eatsure) = Expected(dropdown.eatsureOffers)
    /\ Coupons(dropdown.platformOffers.Swiggy) = Expected(dropdown.swiggyOffers)
    /\ Coupons(dropdown.platformOffers.Zomato) = Expected(dropdown.zomatoOffers)

\* C26: whenever the suggestion dropdown is visible, every item of
\* filteredCards that is not a group heading passes the relevance filter of
\* onChangeQuery for the text in the box: its display contains the text, is
\* a fuzzy name match of it, or scores above 0.3.
C26_DropdownItemsMatchQuery ==
  LET
    Passes(display) ==
      \/ includes(toLowerCase(display), toLowerCase(trim(query)))
      \/ isFuzzyNameMatch(trim(query), display)
      \/ RatLess(Rat(3, 10), rankScore(trim(query), display))
  IN
  DropdownVisible =>
    \A i \in 1..Len(filteredCards) :
      filteredCards[i].type # "heading" => Passes(filteredCards[i].display)

\* C27: the step in which loadAllCards settles, with entries, with none or
\* with an error, keeps an existing selection: when selected is not null
\* before the step, selected and noMatches are the same after it and an
\* offers section that was shown is still shown.
C27_CatalogLoadKeepsSelection ==
  [][(allCardsLoad = "pending" /\ allCardsLoad' # "pending" /\ selected # Null) =>
       /\ selected' = selected
       /\ noMatches' = noMatches
       /\ OffersSectionShown => OffersSectionShown']_vars

\* C28: every chip leads to offers: right after a click on a chip of the
\* strips, whatever the offer tables the chips were harvested from,
\* matchesFor finds at least one row of those tables for the selected
\* instrument.
C28_EveryChipHasOffers ==
  lastOp = <<"handleChipClick">> => hasAny

\* C29: deduplication only removes an offer whose displayed content repeats
\* a kept one: two matched offers whose titles on their cards differ (title
\* taken by OfferCard from "Offer", then the title aliases, then Website,
\* then the text "Offer") have different fingerprints, and an offer with each
\* of the two titles is displayed.
C29_DistinctTitlesBothDisplayed ==
  LET
    all == wSwiggy \o wZomato
    shown == dSwiggy \o dZomato
    \* o["Offer"] || firstField(o, LIST_FIELDS.title) || o.Website || "Offer"
    CardTitle(o) ==
      OrElse(Cell(o, <<"O","f","f","e","r">>),
             OrElse(firstField(o, LIST_FIELDS.title), OrElse(Cell(o, <<"W","e","b","s","i","t","e">>), <<"O","f","f","e","r">>)))
    Displayed(title) == \E k \in 1..Len(shown) : CardTitle(shown[k].offer) = title
  IN
  selected # Null =>
    \A i, j \in 1..Len(all) :
      CardTitle(all[i].offer) # CardTitle(all[j].offer) =>
        /\ KeyOf[all[i].offer] # KeyOf[all[j].offer]
        /\ Displayed(CardTitle(all[i].offer))
        /\ Displayed(CardTitle(all[j].offer))

\* C30: the tiers of App.jsx's getMatchScore are strictly ordered: a score
\* returned by the blended rule, for a candidate that neither equals nor
\* contains the trimmed lower-cased text, is strictly below 90.
C30_BlendedBelowSubstringTier ==
  LET
    q == toLowerCase(trim(fnArgs[1]))
    c == toLowerCase(trim(fnArgs[2]))
  IN
  (/\ fnResult.fn = "getMatchScore"
   /\ fnArgs[1] # <<>> /\ fnArgs[2] # <<>>
   /\ c # q /\ ~includes(c, q))
    => RatLess(fnResult.value, Rat(90, 1))

====
